---- MODULE Spec2Model ----
(***************************************************************************)
(* The tick-based world simulation of the ski-resort game                  *)
(* (src/services/gameLogic.ts, updateGame and its helpers) together with   *)
(* the commands the application applies between ticks (src/App.tsx).       *)
(*                                                                         *)
(* Numbers of the program are floating point; the model keeps them as      *)
(* fixed-point integers:                                                   *)
(*   coordinates and lengths   in 1/100 of a grid unit                     *)
(*   progress                  in 1/1000000 (ProgressOne is 1.0)           *)
(*   hunger                    in 1/10 of a point                          *)
(*   snow depth                in 1/10 cm                                  *)
(*   light opacity, text life  in 1/100                                    *)
(*   time and dt               in game seconds                             *)
(*   speeds                    in 1/100 unit per second                    *)
(* Math.random() is a nondeterministic choice among the outcomes it can    *)
(* produce.                                                                *)
(***************************************************************************)
EXTENDS Integers, Sequences, FiniteSets, TLC

VARIABLES
    time,                 \* GameState.time
    coins,                \* GameState.coins
    gameSpeed,            \* GameState.gameSpeed
    promotedCount,        \* GameState.promotedCount
    nextSkierLabelIndex,  \* GameState.nextSkierLabelIndex
    lastSpawnTime,        \* GameState.lastSpawnTime
    isNight,              \* GameState.isNight
    lightOpacity,         \* GameState.lightOpacity
    snowDepth,            \* GameState.snowDepth
    skiers,               \* GameState.skiers      (sequence of Skier)
    facilities,           \* GameState.facilities  (sequence of Facility)
    floatingTexts,        \* GameState.floatingTexts
    lastOp,               \* history: the operation that produced this state
    lastDt,               \* history: deltaTime handed to the last tick
    boarded,              \* history: boardingUpdates of the last tick
    rentalsPaid,          \* history: rental charges made so far
    cmds,                 \* history: external commands issued so far
    ticks,                \* history: ticks run so far
    edges                 \* history: the day/night edges of the ticks so far

vars == << time, coins, gameSpeed, promotedCount, nextSkierLabelIndex,
           lastSpawnTime, isNight, lightOpacity, snowDepth, skiers,
           facilities, floatingTexts, lastOp, lastDt, boarded, rentalsPaid,
           cmds, ticks, edges >>

-----------------------------------------------------------------------------
(* Fixed-point units *)

CoordUnit == 100
ProgressOne == 1000000
HungerUnit == 10
SnowUnit == 10

(* Program constants (src/constants.ts) *)

DEFAULT_GRID_H == 90
COST_TRAIL == 10
COST_LIFT_BASE == 50
COST_GONDOLA_BASE == 100
COST_CAFE == 500
INCOME_RENTAL == 5
INCOME_CAFE == 15
INCOME_LESSON == 50
INCOME_HOTEL == 20
MAX_POPULATION == 150
MAX_SPAWNED_EXPERTS == 5
DURATION_DAY == 60
DURATION_FADE == 5
DURATION_NIGHT == 30
CYCLE_TOTAL == DURATION_DAY + DURATION_FADE + DURATION_NIGHT + DURATION_FADE
SNOW_MIN == 20
BASE_SKI_SPEED == 60
LIFT_SPEED == 40
GONDOLA_SPEED == 55

(* Date.now(): milliseconds since 1970.  Any clock set after 12 Jan 1970   *)
(* returns more than 10^9; the model keeps this lower bound.               *)
DateNow == 1000000000

(* Bounds of the model *)

MaxTime == 66
MaxCommands == 2
MaxTicks == 3
InitialSkiers == 3

Min(a, b) == IF a < b THEN a ELSE b
Max(a, b) == IF a > b THEN a ELSE b
Range(s) == { s[i] : i \in DOMAIN s }
Abs(a) == IF a < 0 THEN -a ELSE a

RECURSIVE SqrtSearch(_, _, _)
SqrtSearch(n, lo, hi) ==
    IF lo >= hi THEN lo
    ELSE LET mid == (lo + hi + 1) \div 2
         IN IF mid * mid <= n THEN SqrtSearch(n, mid, hi)
            ELSE SqrtSearch(n, lo, mid - 1)

(* floor(sqrt(n)) for 0 <= n < 2^30 *)
ISqrt(n) == SqrtSearch(n, 0, 32767)

-----------------------------------------------------------------------------
(* Geometry kernel (src/services/geometry.ts) *)

Pt(px, py) == [x |-> px, y |-> py]

Dist2(a, b) == (b.x - a.x) * (b.x - a.x) + (b.y - a.y) * (b.y - a.y)

(* distance(p1, p2), in 1/100 units, rounded down *)
distance(a, b) == ISqrt(Dist2(a, b))

(* distance(a, b) < r, r given in 1/100 units: decided exactly *)
Within(a, b, r) == Dist2(a, b) < r * r

(* The parameter t of getProjectedPointOnSegment(p, a, b) after clamping   *)
(* to [0,1], as the fraction num/den.                                      *)
ProjT(p, a, b) ==
    LET l2  == Dist2(a, b)
        dot == (p.x - a.x) * (b.x - a.x) + (p.y - a.y) * (b.y - a.y)
    IN IF l2 = 0 THEN [num |-> 0, den |-> 1]
       ELSE IF dot <= 0 THEN [num |-> 0, den |-> 1]
       ELSE IF dot >= l2 THEN [num |-> 1, den |-> 1]
       ELSE [num |-> dot, den |-> l2]

(* t in progress units (to 1/1000) and the squared distance to the         *)
(* projected point                                                         *)
getProjectedPointOnSegment(p, a, b) ==
    LET tt   == ProjT(p, a, b)
        proj == Pt(a.x + (tt.num * (b.x - a.x)) \div tt.den,
                   a.y + (tt.num * (b.y - a.y)) \div tt.den)
    IN [t |-> ((tt.num * 1000) \div tt.den) * 1000, dist2 |-> Dist2(p, proj)]

-----------------------------------------------------------------------------
(* Types (src/types.ts) *)

TRAIL == "Trail"
LIFT == "Lift"
GONDOLA == "Gondola"
CAFE == "Cafe"

BEGINNER == "Beginner"
AMATEUR == "Amateur"
ADVANCED == "Advanced"
EXPERTISE == "Expertise"

GREEN == "Green"
BLUE == "Blue"
BLACK == "Black"
DOUBLE_DIAMOND == "Double Diamond"
PARK == "Park"

CHAIR_1 == "Single Chair"
CHAIR_2 == "Double Chair"
CHAIR_4 == "Quad Chair"

(* An absent optional field (currentFacilityId, isOpen) *)
Undefined == "undefined"

IsLiftLike(f) == f.type = LIFT \/ f.type = GONDOLA

(* f.isOpen !== false *)
NotClosed(f) == f.isOpen # "false"

HasFacility(facs, id) == \E i \in DOMAIN facs : facs[i].id = id

(* facilities.find(f => f.id === id), for an id that is present *)
FindFacility(facs, id) ==
    facs[CHOOSE i \in DOMAIN facs :
            facs[i].id = id /\ \A j \in 1..(i - 1) : facs[j].id # id]

SeqContains(q, e) == \E i \in DOMAIN q : q[i] = e

SeqFilter(q, keep) == SelectSeq(q, LAMBDA e : e \in keep)

-----------------------------------------------------------------------------
(* Lift geometry (src/constants.ts) *)

getLiftCapacity(subType) ==
    CASE subType = CHAIR_1 -> 1
      [] subType = CHAIR_2 -> 2
      [] subType = CHAIR_4 -> 4
      [] subType = "Gondola" -> 6
      [] subType = "Cafe" -> 10
      [] OTHER -> 1

(* Math.max(1, Math.floor(length * 0.5)) *)
getLiftNumChairs(length) == Max(1, length \div (2 * CoordUnit))

(* Math.max(f.length, 1) *)
ClampLen(length) == Max(length, CoordUnit)

LiftBaseSpeed(f) == IF f.type = GONDOLA THEN GONDOLA_SPEED ELSE LIFT_SPEED

(* cyclePos % 1 as the pair numerator/denominator:                         *)
(* cyclePos = newTime * (baseSpeed / max(length,1)) * numChairs            *)
PhaseNum(f, newTime) ==
    (newTime * LiftBaseSpeed(f) * getLiftNumChairs(f.length)) % ClampLen(f.length)

PhaseDen(f) == ClampLen(f.length)

(* phase < 0.2 *)
InBoardingWindow(f, newTime) == 5 * PhaseNum(f, newTime) < PhaseDen(f)

(* phase / numChairs, in progress units *)
BoardingProgress(f, newTime) ==
    (((PhaseNum(f, newTime) * 10000) \div PhaseDen(f)) * 100)
        \div getLiftNumChairs(f.length)

(* s.progress < (1 / numChairs) * 0.5 *)
NearTerminal(s, f) ==
    2 * getLiftNumChairs(f.length) * s.progress < ProgressOne

-----------------------------------------------------------------------------
(* Preference scores (src/services/gameLogic.ts) *)

(* levelMap and trailMap, doubled so that Park (1.5) is an integer *)
LevelRank2(level) ==
    CASE level = BEGINNER -> 0
      [] level = AMATEUR -> 2
      [] level = ADVANCED -> 4
      [] OTHER -> 6

TrailRank2(trailType) ==
    CASE trailType = GREEN -> 0
      [] trailType = BLUE -> 2
      [] trailType = BLACK -> 4
      [] trailType = DOUBLE_DIAMOND -> 6
      [] OTHER -> 3

TrailScore(skier, trailType, createdAt, currentTime, open) ==
    LET sLvl == LevelRank2(skier.level)
        tLvl == TrailRank2(trailType)
        score == IF skier.level = EXPERTISE
                 THEN (IF trailType = DOUBLE_DIAMOND THEN 100
                       ELSE IF trailType = BLACK THEN 90 ELSE 50)
                 ELSE (IF tLvl = sLvl THEN 100
                       ELSE IF tLvl = sLvl - 2 THEN 60
                       ELSE IF tLvl > sLvl THEN 1 ELSE 20)
    IN IF currentTime - createdAt < 120 /\ tLvl <= sLvl
       THEN score + 200 ELSE score

getTrailPreference(skier, trailType, createdAt, currentTime, open) ==
    IF open = "false" THEN 0
    ELSE TrailScore(skier, trailType, createdAt, currentTime, open)

SetMax(S) == IF S = {} THEN 0 ELSE CHOOSE m \in S : \A n \in S : n <= m

evaluateLift(lift, facs, skier, currentTime) ==
    IF lift.isOpen = "false" THEN 0
    ELSE LET openTrails ==
                 { i \in DOMAIN facs :
                     /\ facs[i].type = TRAIL
                     /\ Within(facs[i].start, lift.end, 2 * CoordUnit)
                     /\ NotClosed(facs[i]) }
         IN SetMax({ getTrailPreference(skier, facs[i].subType,
                                        facs[i].createdAt, currentTime,
                                        facs[i].isOpen) : i \in openTrails })

-----------------------------------------------------------------------------
(* Connectivity resolver: applyConnectivityRules *)

(* Source END feeds Target START, tolerance 3.0; closed things do not feed *)
Feeds(source, target) ==
    /\ NotClosed(source)
    /\ source.id # target.id
    /\ Within(source.end, target.start, 3 * CoordUnit)

(* A one-step rule: open whatever has some open feeder *)
PropagateOnce(facs, openSet, frontier) ==
    openSet \cup { i \in DOMAIN facs :
                     /\ NotClosed(facs[i])
                     /\ \E j \in DOMAIN facs : Feeds(facs[j], facs[i]) }

RECURSIVE Propagate(_, _, _)
Propagate(facs, openSet, frontier) ==
    LET next == { i \in DOMAIN facs :
                    /\ i \notin openSet
                    /\ NotClosed(facs[i])
                    /\ \E j \in frontier : Feeds(facs[j], facs[i]) }
    IN IF next = {} THEN openSet
       ELSE Propagate(facs, openSet \cup next, next)

(* Every open lift taken as a source, wherever it starts *)
BaseSourcesAnywhere(facs, gridH) ==
    { i \in DOMAIN facs : IsLiftLike(facs[i]) /\ NotClosed(facs[i]) }

BaseSources(facs, gridH) ==
    { i \in DOMAIN facs :
        /\ IsLiftLike(facs[i])
        /\ NotClosed(facs[i])
        /\ 2 * facs[i].start.y > gridH * CoordUnit }

OpenCafes(facs) ==
    { i \in DOMAIN facs : facs[i].type = CAFE /\ NotClosed(facs[i]) }

ReachableSet(facs, gridH) ==
    Propagate(facs, OpenCafes(facs) \cup BaseSources(facs, gridH),
              BaseSources(facs, gridH))

(* A resolver that drops what it cannot reach instead of closing it *)
applyConnectivityRulesDropping(facs, gridH) ==
    LET openSet == ReachableSet(facs, gridH)
    IN SeqFilter(facs, { facs[i] : i \in { j \in DOMAIN facs :
                                              \/ facs[j].type = CAFE
                                              \/ facs[j].isOpen = "false"
                                              \/ j \in openSet } })

applyConnectivityRules(facs, gridH) ==
    LET openSet == ReachableSet(facs, gridH)
    IN [ i \in DOMAIN facs |->
           IF facs[i].type = CAFE THEN facs[i]
           ELSE IF facs[i].isOpen = "false" THEN facs[i]
           ELSE IF i \notin openSet THEN [facs[i] EXCEPT !.isOpen = "false"]
           ELSE facs[i] ]

-----------------------------------------------------------------------------
(* Cycle clock and night/day policy (updateGame, lines 921-1043) *)

(* isNight of the cycle clock *)
ClockIsNight(newTime) ==
    (newTime % CYCLE_TOTAL) >= DURATION_DAY + DURATION_FADE

(* lightOpacity of the cycle clock, in 1/100 *)
ClockOpacity(newTime) ==
    LET c == newTime % CYCLE_TOTAL
    IN IF c < DURATION_DAY THEN 0
       ELSE IF c < DURATION_DAY + DURATION_FADE
            THEN ((c - DURATION_DAY) * 100) \div DURATION_FADE
       ELSE IF c < DURATION_DAY + DURATION_FADE + DURATION_NIGHT THEN 100
       ELSE 100 - (((c - (DURATION_DAY + DURATION_FADE + DURATION_NIGHT)) * 100)
                     \div DURATION_FADE)

(* Phase shifts: the clock's isNight against the stored flag *)
JustBecameNightAlways(night, was) == night

JustBecameNight(night, was) == night /\ ~was

JustBecameDayNever(night, was) == FALSE

JustBecameDay(night, was) == ~night /\ was

(* Sunrise: everything opens, except the lifts in windHold (each lift      *)
(* rolls Math.random() < 0.1 on its own).                                  *)
DayPolicy(facs, windHold) ==
    [ i \in DOMAIN facs |->
        [facs[i] EXCEPT !.isOpen =
            IF IsLiftLike(facs[i]) /\ facs[i].id \in windHold
            THEN "false" ELSE "true"] ]

(* Step 1 of nightfall: trails by difficulty, lifts closed *)
NightTrails(facs, blueOpen) ==
    [ i \in DOMAIN facs |->
        IF facs[i].type = TRAIL
        THEN [facs[i] EXCEPT !.isOpen =
                 IF facs[i].subType = GREEN THEN "true"
                 ELSE IF facs[i].subType = BLUE /\ facs[i].id \in blueOpen
                      THEN "true" ELSE "false"]
        ELSE IF IsLiftLike(facs[i])
        THEN [facs[i] EXCEPT !.isOpen = "false"]
        ELSE facs[i] ]

(* feeders: a lift/gondola whose end is within 3.0 of the target's start *)
IsFeeder(source, target) ==
    /\ IsLiftLike(source)
    /\ source.id # target.id
    /\ Within(source.end, target.start, 3 * CoordUnit)

(* The lifts that feed an open trail directly, without the chain *)
NeededLiftsDirect(facs, needed, frontier) ==
    { i \in DOMAIN facs : \E j \in frontier : IsFeeder(facs[i], facs[j]) }

RECURSIVE NeededLifts(_, _, _)
NeededLifts(facs, needed, frontier) ==
    LET next == { i \in DOMAIN facs :
                    /\ i \notin needed
                    /\ \E j \in frontier : IsFeeder(facs[i], facs[j]) }
    IN IF next = {} THEN needed
       ELSE NeededLifts(facs, needed \cup next, next)

(* The fallback lift: the first (lift, open trail) pair, in list order,    *)
(* of least distance; 0 when there is none or it is 20 or more away.       *)
FallbackLift(facs, openTrails) ==
    LET lifts == { i \in DOMAIN facs : IsLiftLike(facs[i]) }
        pairs == lifts \X openTrails
        d(p)  == Dist2(facs[p[1]].end, facs[p[2]].start)
        before(p, q) == p[1] < q[1] \/ (p[1] = q[1] /\ p[2] < q[2])
    IN IF pairs = {} THEN 0
       ELSE LET best == CHOOSE p \in pairs :
                            \A q \in pairs :
                                d(p) < d(q) \/ (d(p) = d(q) /\ (p = q \/ before(p, q)))
            IN IF Within(facs[best[1]].end, facs[best[2]].start, 20 * CoordUnit)
               THEN best[1] ELSE 0

NightPolicy(facs, blueOpen) ==
    LET step1      == NightTrails(facs, blueOpen)
        openTrails == { i \in DOMAIN step1 :
                          step1[i].type = TRAIL /\ step1[i].isOpen = "true" }
        needed     == NeededLifts(step1, {}, openTrails)
        fallback   == IF openTrails # {} /\ needed = {}
                      THEN FallbackLift(step1, openTrails) ELSE 0
    IN [ i \in DOMAIN step1 |->
           IF i \in needed \/ i = fallback
           THEN [step1[i] EXCEPT !.isOpen = "true"]
           ELSE step1[i] ]

-----------------------------------------------------------------------------
(* Trail curve (src/services/geometry.ts, lines 82-142) *)

(* sin(pi * k / 30) in 1/10000, k = 0..15 *)
SinQuarter ==
    << 0, 1045, 2079, 3090, 4067, 5000, 5878, 6691, 7431, 8090, 8660, 9135,
       9511, 9781, 9945, 10000 >>

(* sin(pi * k / 30) in 1/10000 for any k >= 0 *)
SinPi30(k) ==
    LET m == k % 60
        h == m % 30
        v == IF h <= 15 THEN SinQuarter[h + 1] ELSE SinQuarter[30 - h + 1]
    IN IF m < 30 THEN v ELSE -v

(* getTrailParams: freq and amp follow from the id's character sum.  The   *)
(* trail of the opening layout has the id 'start-run' (sum 944: even, so   *)
(* dir = 1, and sin(944) = 0.9988, so amp = 0.9994 * min(0.2 * dist, 2.5));*)
(* a built trail's id holds Date.now(), so its amp is any value the        *)
(* formula can give and the build site carries it.                         *)
getTrailParams(f) ==
    [freq |-> IF f.length < 5 * CoordUnit THEN 1 ELSE f.curveFreq,
     amp  |-> f.curveAmp]

(* const len = Math.sqrt(dx*dx + dy*dy) || 1 *)
NormalLen(f) == Max(distance(f.start, f.end), 1)

(* getPointOnTrail at t = i / 30, given the length of the normal vector *)
PointOnTrail(f, i, len) ==
    LET dx  == f.end.x - f.start.x
        dy  == f.end.y - f.start.y
        par == getTrailParams(f)
        s   == SinPi30(i * par.freq)
        off == (par.amp * s) \div 10000
    IN Pt(f.start.x + (dx * i) \div 30 + ((0 - dy) * off) \div len,
          f.start.y + (dy * i) \div 30 + (dx * off) \div len)

getPointOnTrail(f, i) == PointOnTrail(f, i, NormalLen(f))

(* getNearestPointOnTrail: the loop over the 31 samples, keeping the first *)
(* of least distance                                                       *)
RECURSIVE NearestFrom(_, _, _, _, _, _)
NearestFrom(p, f, len, i, bestI, bestD) ==
    IF i > 30 THEN [t |-> (bestI * ProgressOne) \div 30, dist2 |-> bestD]
    ELSE LET d == Dist2(PointOnTrail(f, i, len), p)
         IN IF bestD < 0 \/ d < bestD
            THEN NearestFrom(p, f, len, i + 1, i, d)
            ELSE NearestFrom(p, f, len, i + 1, bestI, bestD)

getNearestPointOnTrail(p, f) == NearestFrom(p, f, NormalLen(f), 0, 0, -1)

-----------------------------------------------------------------------------
(* The layout.  findBestStartPoint gives the start and the mid point of    *)
(* the mountain the player drew; the model fixes one mountain, whose start *)
(* point is (80, 60) and whose mid point is (80, 56).                      *)

StartPoint == Pt(80 * CoordUnit, 60 * CoordUnit)
MidPoint == Pt(80 * CoordUnit, 56 * CoordUnit)
HotelPosition == Pt(80 * CoordUnit, 62 * CoordUnit)

NewFacility(id, type, subType, start, end, length, createdAt, open, amp, freq) ==
    [id |-> id, type |-> type, subType |-> subType, start |-> start,
     end |-> end, length |-> length, queue |-> << >>,
     createdAt |-> createdAt, isOpen |-> open,
     curveAmp |-> amp, curveFreq |-> freq]

(* createSkier *)
createSkier(id, startPoint, level, variance) ==
    [id |-> id, level |-> level, x |-> startPoint.x, y |-> startPoint.y,
     state |-> "idle", currentFacilityId |-> Undefined, progress |-> 0,
     rideCount |-> 0, seatIndex |-> 0, speedVariance |-> variance,
     hunger |-> 100 * HungerUnit, lastRentalPayTime |-> DateNow]

(* 0.85 + Math.random() * 0.3, in 1/100: the draws the model takes *)
SpeedVariances == {100}

(* setupGameFromMountains: one lift up, one green trail down *)
InitialFacilities ==
    << NewFacility("start-lift", LIFT, CHAIR_4, StartPoint, MidPoint,
                   distance(StartPoint, MidPoint), 0, Undefined, 0, 1),
       NewFacility("start-run", TRAIL, GREEN, MidPoint, StartPoint,
                   distance(StartPoint, MidPoint), 0, "true", 80, 1) >>

(* What the player can build: a tool of the control bar dragged between    *)
(* two points (a cafe: clicked at one point).  'far-run' starts more than  *)
(* 3.0 from every lift and trail end and crosses the start point half way  *)
(* down; amp and freq are values getTrailParams can give for its id.       *)
BuildSites ==
    { [id |-> "lift-2", type |-> LIFT, subType |-> CHAIR_2,
       start |-> StartPoint, end |-> MidPoint, amp |-> 0, freq |-> 1],
      [id |-> "far-run", type |-> TRAIL, subType |-> BLUE,
       start |-> Pt(8350, 5950), end |-> Pt(7650, 6050), amp |-> 100, freq |-> 2],
      [id |-> "cafe", type |-> CAFE, subType |-> "Cafe",
       start |-> Pt(8050, 6050), end |-> Pt(8150, 6150), amp |-> 0, freq |-> 1] }

(* Where the player can click in destroy mode *)
ClickPoints == { StartPoint, MidPoint, Pt(8000, 6060), Pt(8050, 6050) }

GameSpeeds == {0, 1, 4}

(* deltaTime of a frame, in seconds: an immediate frame, a one-second      *)
(* frame, and the frame after the page was in the background for a minute  *)
DeltaTimes == {0, 1, 60}

-----------------------------------------------------------------------------
(* The state after construction (src/App.tsx, lines 59-90) *)

Init ==
    /\ time = 0
    /\ coins = 500
    /\ gameSpeed = 1
    /\ promotedCount = 0
    /\ nextSkierLabelIndex = InitialSkiers
    /\ lastSpawnTime = 0
    /\ isNight = FALSE
    /\ lightOpacity = 0
    /\ snowDepth = 60 * SnowUnit
    /\ skiers \in { sk \in [1..InitialSkiers ->
                              { createSkier(i, StartPoint, BEGINNER, v) :
                                  i \in 0..(InitialSkiers - 1),
                                  v \in SpeedVariances }] :
                      \A i \in 1..InitialSkiers : sk[i].id = i - 1 }
    /\ facilities = InitialFacilities
    /\ floatingTexts = << >>
    /\ lastOp = "init"
    /\ lastDt = 0
    /\ boarded = << >>
    /\ rentalsPaid = 0
    /\ cmds = 0
    /\ ticks = 0
    /\ edges = << >>

-----------------------------------------------------------------------------
(* External commands (src/App.tsx) *)

GameUnchanged ==
    UNCHANGED << time, promotedCount, nextSkierLabelIndex, lastSpawnTime,
                 isNight, lightOpacity, snowDepth, floatingTexts, edges >>

CanCommand == cmds < MaxCommands

Command(name) ==
    /\ cmds' = cmds + 1
    /\ lastOp' = name
    /\ UNCHANGED << lastDt, boarded, rentalsPaid, ticks >>

(* Controls: setGameSpeed *)
SetSpeed ==
    /\ CanCommand
    /\ \E s \in GameSpeeds :
        /\ s # gameSpeed
        /\ gameSpeed' = s
        /\ Command("speed")
        /\ GameUnchanged
        /\ UNCHANGED << coins, skiers, facilities >>

(* handleMapClick, build branch: cost by the dragged distance *)
BuildCost(site) ==
    IF site.type = CAFE THEN COST_CAFE
    ELSE (distance(site.start, site.end)
            * (CASE site.type = LIFT -> COST_LIFT_BASE
                 [] site.type = GONDOLA -> COST_GONDOLA_BASE
                 [] OTHER -> COST_TRAIL)) \div CoordUnit

(* Trails must go downhill, lifts uphill *)
ValidDirection(site) ==
    CASE site.type = CAFE -> TRUE
      [] site.type = TRAIL -> site.end.y > site.start.y
      [] OTHER -> site.end.y < site.start.y

(* the skiers after a lift or trail is built: the waiting ones turn idle *)
RefreshedSkiers(sk) ==
    [ i \in DOMAIN sk |->
        IF sk[i].state = "waiting"
        THEN [sk[i] EXCEPT !.state = "idle",
                           !.currentFacilityId = Undefined,
                           !.progress = 0]
        ELSE sk[i] ]

Build ==
    /\ CanCommand
    /\ \E site \in BuildSites :
        /\ ~HasFacility(facilities, site.id)
        /\ coins >= BuildCost(site)
        /\ ValidDirection(site)
        /\ coins' = coins - BuildCost(site)
        /\ facilities' =
             Append(facilities,
                    NewFacility(site.id, site.type, site.subType, site.start,
                                site.end,
                                IF site.type = CAFE THEN CoordUnit
                                ELSE distance(site.start, site.end),
                                time, "true", site.amp, site.freq))
        /\ skiers' = IF site.type = CAFE THEN skiers
                     ELSE RefreshedSkiers(skiers)
        /\ Command("build")
        /\ GameUnchanged
        /\ UNCHANGED gameSpeed

(* handleMapClick, destroy branch: the first facility the click hits *)
HitRadius == 150

Hits(p, f) ==
    \/ Within(p, f.start, HitRadius)
    \/ Within(p, f.end, HitRadius)
    \/ /\ f.type # CAFE
       /\ getProjectedPointOnSegment(p, f.start, f.end).dist2
            < HitRadius * HitRadius

(* A demolition that leaves the skiers as they are *)
DemolishedSkiersKept(sk, facs, targetId) == sk

DemolishedSkiers(sk, facs, targetId) ==
    [ i \in DOMAIN sk |->
        IF sk[i].currentFacilityId = targetId
        THEN [sk[i] EXCEPT !.x = facs[1].start.x,
                           !.y = facs[1].start.y,
                           !.state = "idle",
                           !.currentFacilityId = Undefined,
                           !.progress = 0]
        ELSE sk[i] ]

Demolish ==
    /\ CanCommand
    /\ \E p \in ClickPoints :
        /\ \E i \in DOMAIN facilities : Hits(p, facilities[i])
        /\ LET t == CHOOSE i \in DOMAIN facilities :
                        /\ Hits(p, facilities[i])
                        /\ \A j \in 1..(i - 1) : ~Hits(p, facilities[j])
               target == facilities[t]
           IN /\ coins' = coins + (target.length * COST_TRAIL) \div (2 * CoordUnit)
              /\ facilities' = SelectSeq(facilities, LAMBDA f : f.id # target.id)
              /\ skiers' = DemolishedSkiers(skiers, facilities, target.id)
        /\ Command("demolish")
        /\ GameUnchanged
        /\ UNCHANGED gameSpeed

(* handleModSkier: the skier the player has selected *)
SelectableSkiers == {1}

FirstOfType(facs, type) ==
    CHOOSE i \in DOMAIN facs :
        facs[i].type = type /\ \A j \in 1..(i - 1) : facs[j].type # type

SellLesson ==
    /\ CanCommand
    /\ \E i \in DOMAIN skiers \cap SelectableSkiers :
        /\ coins' = coins + INCOME_LESSON
        /\ skiers' = [skiers EXCEPT ![i].rideCount = @ + 2]
        /\ Command("sell-lesson")
        /\ GameUnchanged
        /\ UNCHANGED << gameSpeed, facilities >>

ForceLift ==
    /\ CanCommand
    /\ \E i \in DOMAIN skiers \cap SelectableSkiers :
        /\ \E k \in DOMAIN facilities : facilities[k].type = LIFT
        /\ LET lift == facilities[FirstOfType(facilities, LIFT)]
           IN skiers' = [skiers EXCEPT ![i].x = lift.start.x,
                                       ![i].y = lift.start.y,
                                       ![i].state = "idle",
                                       ![i].currentFacilityId = Undefined,
                                       ![i].progress = 0]
        /\ Command("force-lift")
        /\ GameUnchanged
        /\ UNCHANGED << coins, gameSpeed, facilities >>

ForceLodge ==
    /\ CanCommand
    /\ \E i \in DOMAIN skiers \cap SelectableSkiers :
        /\ \E k \in DOMAIN facilities : facilities[k].type = CAFE
        /\ LET cafe == facilities[FirstOfType(facilities, CAFE)]
           IN skiers' = [skiers EXCEPT ![i].x = cafe.start.x,
                                       ![i].y = cafe.start.y,
                                       ![i].state = "idle",
                                       ![i].currentFacilityId = Undefined,
                                       ![i].progress = 0,
                                       ![i].hunger = 0]
        /\ Command("force-lodge")
        /\ GameUnchanged
        /\ UNCHANGED << coins, gameSpeed, facilities >>

(* Dashboard: onCheat *)
Cheat ==
    /\ CanCommand
    /\ coins' = coins + 500
    /\ Command("cheat")
    /\ GameUnchanged
    /\ UNCHANGED << gameSpeed, skiers, facilities >>

-----------------------------------------------------------------------------
(* updateGame: the parts of one tick *)

NoFacility == "none"

(* Floating texts float up and decay by dt * 0.5; the dead ones are dropped *)
DecayTexts(fts, dt) ==
    SelectSeq([ i \in DOMAIN fts |->
                  [fts[i] EXCEPT !.y = @ - 50 * dt, !.life = @ - 50 * dt] ],
              LAMBDA ft : ft.life > 0)

(* processPayment's floating text *)
PaymentText(amount, px, py) == [x |-> px, y |-> py, amount |-> amount, life |-> 100]

(* getSnowSpeedMod, in tenths *)
getSnowSpeedMod(depth) ==
    IF depth < SNOW_MIN * SnowUnit THEN 4
    ELSE IF depth < 50 * SnowUnit THEN 8
    ELSE IF depth > 200 * SnowUnit THEN 9
    ELSE 10

(* The weather roll: Math.random() < 0.05, then a change of                *)
(* (Math.random() - 0.4) * 0.5 cm, clamped to [0, 300].  MaxSnowDrift      *)
(* bounds how far the model lets the depth wander from where it started.   *)
MaxSnowDrift == 0
SnowChanges == {-1, 1}

SnowOutcomes(depth) ==
    {depth} \cup
    { d \in { Max(0, Min(300 * SnowUnit, depth + c)) : c \in SnowChanges } :
        Abs(d - 60 * SnowUnit) <= MaxSnowDrift }

(* --- Lift boarding (lines 1096-1136) --- *)

(* How many queue heads one boarding pass takes.  The loop                 *)
(*   for (i = 0; i < Math.min(f.queue.length, freeSeats); i++) {...; f.queue.shift(); i--;} *)
(* keeps i at 0 and never lowers freeSeats, so it runs until the queue is  *)
(* empty.                                                                  *)
BoardCount(queueLen, freeSeats) ==
    IF freeSeats > 0 THEN queueLen ELSE 0

(* Seats occupied near the terminal, from the skiers of the input state *)
OccupiedSeats(f, sk) ==
    { sk[i].seatIndex : i \in { j \in DOMAIN sk :
                                  /\ sk[j].currentFacilityId = f.id
                                  /\ sk[j].state = "lifting"
                                  /\ NearTerminal(sk[j], f) } }

(* Math.random() of the seat draw, in 1/100: the draws the model takes *)
SeatRolls == {0}

(* available[Math.floor(Math.random() * available.length)] *)
SeatPick(available, roll) ==
    CHOOSE seat \in available :
        Cardinality({ other \in available : other < seat })
            = (roll * Cardinality(available)) \div 100

(* The seat sequences k boarders can draw: a random free seat while one is *)
(* left, seat 0 after that and on single-seat lifts                        *)
RECURSIVE SeatDraws(_, _, _)
SeatDraws(k, occupied, capacity) ==
    IF k = 0 THEN { << >> }
    ELSE LET available == (0..(capacity - 1)) \ occupied
         IN IF capacity > 1 /\ available # {}
            THEN UNION { { << SeatPick(available, roll) >> \o rest :
                             rest \in SeatDraws(k - 1,
                                                occupied \cup {SeatPick(available, roll)},
                                                capacity) } :
                         roll \in SeatRolls }
            ELSE { [ i \in 1..k |-> 0 ] }

(* The boarding passes one facility can make: each a sequence of updates *)

BoardingOf(f, sk, newTime) ==
    IF IsLiftLike(f) /\ NotClosed(f) /\ InBoardingWindow(f, newTime)
    THEN LET capacity  == getLiftCapacity(f.subType)
             occupied  == OccupiedSeats(f, sk)
             freeSeats == capacity - Cardinality(occupied)
             k         == BoardCount(Len(f.queue), freeSeats)
         IN { [ i \in 1..k |->
                  [skier |-> f.queue[i], fac |-> f.id,
                   progress |-> BoardingProgress(f, newTime),
                   seat |-> seats[i]] ] :
              seats \in SeatDraws(k, occupied, capacity) }
    ELSE { << >> }

(* All facilities in list order: the concatenated updates *)
RECURSIVE BoardingRuns(_, _, _, _)
BoardingRuns(facs, sk, newTime, n) ==
    IF n = 0 THEN { << >> }
    ELSE { before \o here :
             before \in BoardingRuns(facs, sk, newTime, n - 1),
             here \in BoardingOf(facs[n], sk, newTime) }

(* The queues after the pass: the boarded heads are shifted out *)
AfterBoarding(facs, run) ==
    [ i \in DOMAIN facs |->
        LET k == Cardinality({ j \in DOMAIN run : run[j].fac = facs[i].id })
        IN [facs[i] EXCEPT !.queue = SubSeq(@, k + 1, Len(@))] ]

(* boardingUpdates.has(id) / .get(id): Map.set keeps the last entry *)
WasBoarded(run, id) == \E j \in DOMAIN run : run[j].skier = id

BoardingUpdate(run, id) ==
    run[CHOOSE j \in DOMAIN run :
            run[j].skier = id /\ \A k \in (j + 1)..Len(run) : run[k].skier # id]

(* --- One skier (lines 1138-1348) --- *)

(* The draws the model takes for the random offsets, in 1/100 units:       *)
(*   hotel     x + (random * 4 - 2),  y + (random * 2 - 1)                 *)
(*   wake-up   start + (random - 0.5) in both coordinates                  *)
(*   arrival   end + (random - 0.5) * 0.3 in both coordinates              *)
(*   resting   x + (random - 0.5) * 0.5, y + (random - 0.5) * 0.2          *)
HotelOffsets == { << 150, -50 >> }
WakeOffsets == { << 0, 0 >> }
ArrivalJitter == { << 14, -15 >> }
MicroMoves == { << -25, 9 >> }

Outcome(sk, enq, pays, promoted, rentals) ==
    [sk |-> sk, enq |-> enq, pays |-> pays, promoted |-> promoted,
     rentals |-> rentals]

(* Night transition (go to the hotel, pay the fee) or day transition (wake *)
(* up at a spawn point): the skier and the payments so far                 *)
(* Going to rest without giving up the facility *)
RestOrWakeKeepsFacility(s, C) ==
    IF C.nightEdge /\ s.id \in C.rest
    THEN { [sk |-> [s EXCEPT !.state = "resting",
                             !.x = HotelPosition.x + o[1],
                             !.y = HotelPosition.y + o[2]],
            pays |-> << PaymentText(INCOME_HOTEL, HotelPosition.x + o[1],
                                    HotelPosition.y + o[2]) >>] :
           o \in HotelOffsets }
    ELSE IF C.dayEdge /\ s.state = "resting"
    THEN { [sk |-> [s EXCEPT !.state = "idle",
                             !.x = p.x + o[1], !.y = p.y + o[2]],
            pays |-> << >>] :
           p \in C.spawnPoints, o \in WakeOffsets }
    ELSE { [sk |-> s, pays |-> << >>] }

RestOrWake(s, C) ==
    IF C.nightEdge /\ s.id \in C.rest
    THEN { [sk |-> [s EXCEPT !.state = "resting",
                             !.currentFacilityId = Undefined,
                             !.x = HotelPosition.x + o[1],
                             !.y = HotelPosition.y + o[2]],
            pays |-> << PaymentText(INCOME_HOTEL, HotelPosition.x + o[1],
                                    HotelPosition.y + o[2]) >>] :
           o \in HotelOffsets }
    ELSE IF C.dayEdge /\ s.state = "resting"
    THEN { [sk |-> [s EXCEPT !.state = "idle",
                             !.x = p.x + o[1], !.y = p.y + o[2]],
            pays |-> << >>] :
           p \in C.spawnPoints, o \in WakeOffsets }
    ELSE { [sk |-> s, pays |-> << >>] }

(* Micro-movement in the hotel (5% of the ticks), kept within the hotel *)
RestingMoves(s) ==
    {s} \cup
    { LET nx == s.x + m[1]
          ny == s.y + m[2]
      IN [s EXCEPT !.x = IF Abs(nx - HotelPosition.x) > 4 * CoordUnit
                         THEN HotelPosition.x ELSE nx,
                   !.y = IF Abs(ny - HotelPosition.y) > 2 * CoordUnit
                         THEN HotelPosition.y ELSE ny] :
      m \in MicroMoves }

(* Rental charge: newTime - lastRentalPayTime > 60, after a falsy          *)
(* lastRentalPayTime was set to newTime                                    *)
RentalBase(s, newTime) ==
    IF s.lastRentalPayTime = 0 THEN newTime ELSE s.lastRentalPayTime

RentalDue(s, newTime) == newTime - RentalBase(s, newTime) > 60

(* Hunger decay: 0.8 per second while not eating *)
HungerDecay(s, dt) ==
    IF s.state # "eating"
    THEN [s EXCEPT !.hunger = Max(0, @ - 8 * dt)]
    ELSE s

ApplyBoarding(s, run) ==
    IF WasBoarded(run, s.id)
    THEN LET u == BoardingUpdate(run, s.id)
         IN [s EXCEPT !.state = "lifting", !.progress = u.progress,
                      !.seatIndex = u.seat]
    ELSE s

(* EATING: progress += dt * 0.5; done at 1.  The cafe is looked up after   *)
(* currentFacilityId was cleared, so it is never found and the skier keeps *)
(* its position.                                                           *)
EatingStep(s, dt) ==
    LET p == s.progress + (ProgressOne \div 2) * dt
    IN IF p >= ProgressOne
       THEN [s EXCEPT !.progress = p, !.hunger = 100 * HungerUnit,
                      !.state = "idle", !.currentFacilityId = Undefined]
       ELSE [s EXCEPT !.progress = p]

(* IDLE: the options, in the order the code lists them *)
Indices(facs) == [ i \in DOMAIN facs |-> i ]

Here(s) == Pt(s.x, s.y)

CafeOptions(s, facs) ==
    LET near == SelectSeq(Indices(facs),
                          LAMBDA i : facs[i].type = CAFE
                                     /\ Within(facs[i].start, Here(s), 15 * CoordUnit))
    IN [ k \in DOMAIN near |->
           [idx |-> near[k], t |-> 0,
            score |-> 2000 - distance(facs[near[k]].start, Here(s)) \div 10] ]

IsStart(s, f) ==
    Abs(f.start.x - s.x) < CoordUnit /\ Abs(f.start.y - s.y) < CoordUnit

(* The merge parameter of a trail the skier stands on, or -1 *)
MergeT(s, f) ==
    IF \/ s.x < Min(f.start.x, f.end.x) - CoordUnit
       \/ s.x > Max(f.start.x, f.end.x) + CoordUnit
       \/ s.y < Min(f.start.y, f.end.y) - CoordUnit
       \/ s.y > Max(f.start.y, f.end.y) + CoordUnit
    THEN -1
    ELSE LET r == IF f.length < 2 * CoordUnit
                  THEN getProjectedPointOnSegment(Here(s), f.start, f.end)
                  ELSE getNearestPointOnTrail(Here(s), f)
         IN IF /\ r.dist2 < 80 * 80
               /\ 20 * r.t > ProgressOne
               /\ 20 * r.t < 19 * ProgressOne
            THEN r.t ELSE -1

OptionScore(s, f, t, facs, newTime) ==
    (IF f.type = TRAIL
     THEN getTrailPreference(s, f.subType, f.createdAt, newTime, f.isOpen)
     ELSE IF IsLiftLike(f) THEN evaluateLift(f, facs, s, newTime)
     ELSE 0)
    + (IF t > 0 THEN 20 ELSE 0)

NearbyOptions(s, facs, newTime) ==
    LET starts == SelectSeq(Indices(facs), LAMBDA i : IsStart(s, facs[i]))
        merges == SelectSeq([ i \in DOMAIN facs |->
                                [idx |-> i,
                                 t |-> IF facs[i].type = TRAIL /\ ~IsStart(s, facs[i])
                                       THEN MergeT(s, facs[i]) ELSE -1] ],
                            LAMBDA m : m.t >= 0)
        opt(i, t) == [idx |-> i, t |-> t,
                      score |-> OptionScore(s, facs[i], t, facs, newTime)]
    IN [ k \in DOMAIN starts |-> opt(starts[k], 0) ]
       \o [ k \in DOMAIN merges |-> opt(merges[k].idx, merges[k].t) ]

Options(s, facs, newTime) ==
    LET cafes == IF s.hunger < 30 * HungerUnit
                 THEN CafeOptions(s, facs) ELSE << >>
    IN IF Len(cafes) > 0 THEN cafes ELSE NearbyOptions(s, facs, newTime)

(* const pool = viableOptions.length > 0 ? viableOptions : options *)
Pool(options) ==
    LET viable == SelectSeq(options, LAMBDA o : o.score > 0)
    IN IF Len(viable) > 0 THEN viable ELSE options

(* The weighted choice: bestOption starts as pool[0], and an entry takes   *)
(* over when score * Math.random() is strictly above the best so far.  So  *)
(* the first entry can always win, any entry of positive score can, and an *)
(* entry of score 0 after the first never does.                            *)
Winners(pool) ==
    { pool[k] : k \in { j \in DOMAIN pool : j = 1 \/ pool[j].score > 0 } }

(* A decision that sends the skier to eat whatever was chosen *)
DecideEat(s, best, facs) ==
    Outcome([s EXCEPT !.state = "eating",
                      !.currentFacilityId = facs[best.idx].id,
                      !.progress = 0], NoFacility, << >>, 0, 0)

Decide(s, best, facs) ==
    LET f == facs[best.idx]
    IN IF f.type = CAFE
       THEN Outcome([s EXCEPT !.state = "eating", !.currentFacilityId = f.id,
                              !.progress = 0], NoFacility, << >>, 0, 0)
       ELSE IF IsLiftLike(f)
       THEN Outcome([s EXCEPT !.state = "waiting", !.currentFacilityId = f.id,
                              !.progress = best.t], f.id, << >>, 0, 0)
       ELSE Outcome([s EXCEPT !.state = "skiing", !.currentFacilityId = f.id,
                              !.progress = best.t], NoFacility, << >>, 0, 0)

(* A decision step that seats the skier on the chosen lift at once *)
IdleStepBoards(s, C) ==
    LET options == Options(s, C.facs, C.newTime)
    IN IF Len(options) > 0
       THEN { IF IsLiftLike(C.facs[best.idx])
              THEN Outcome([s EXCEPT !.state = "lifting",
                                     !.currentFacilityId = C.facs[best.idx].id,
                                     !.progress = best.t],
                           NoFacility, << >>, 0, 0)
              ELSE Decide(s, best, C.facs) :
              best \in Winners(Pool(options)) }
       ELSE { Outcome(s, NoFacility, << >>, 0, 0) }

IdleStep(s, C) ==
    LET options == Options(s, C.facs, C.newTime)
    IN IF Len(options) > 0
       THEN { Decide(s, best, C.facs) : best \in Winners(Pool(options)) }
       ELSE { Outcome(s, NoFacility, << >>, 0, 0) }

(* SKIING / LIFTING *)
TrailMult(subType) ==
    CASE subType = GREEN -> 100
      [] subType = BLUE -> 120
      [] subType = BLACK -> 144
      [] subType = DOUBLE_DIAMOND -> 173
      [] subType = PARK -> 110
      [] OTHER -> 100

LevelMult(level) ==
    CASE level = BEGINNER -> 1000
      [] level = AMATEUR -> 1200
      [] level = ADVANCED -> 1440
      [] OTHER -> 1728

(* tLvl of the movement step: Park and non-trails are -1 *)
MoveTrailRank(subType) ==
    CASE subType = GREEN -> 0
      [] subType = BLUE -> 1
      [] subType = BLACK -> 2
      [] subType = DOUBLE_DIAMOND -> 3
      [] OTHER -> -1

(* Progress per second, in progress units *)
(* A hungry skier that stops instead of slowing down *)
SkiSpeedHungryStops(s, f, snowMod) ==
    IF s.hunger < 30 * HungerUnit THEN 0 ELSE BASE_SKI_SPEED

SkiSpeed(s, f, snowMod) ==
    LET base   == (BASE_SKI_SPEED * TrailMult(f.subType) * LevelMult(s.level)
                     * (IF s.speedVariance = 0 THEN 100 ELSE s.speedVariance))
                  \div (10 * ClampLen(f.length))
        slowed == IF 2 * MoveTrailRank(f.subType) > LevelRank2(s.level)
                  THEN (base * 3) \div 10 ELSE base
        snowed == (slowed * snowMod) \div 10
    IN IF s.hunger < 30 * HungerUnit THEN snowed \div 2 ELSE snowed

LiftSpeed(f) ==
    IF f.isOpen = "false" THEN 0
    ELSE (LiftBaseSpeed(f) * (ProgressOne \div CoordUnit) * CoordUnit)
            \div ClampLen(f.length)

getPromotionTarget(level) ==
    CASE level = BEGINNER -> GREEN
      [] level = AMATEUR -> GREEN
      [] level = ADVANCED -> BLUE
      [] OTHER -> "null"

PromotionCount(level) ==
    CASE level = BEGINNER -> 5
      [] level = AMATEUR -> 7
      [] level = ADVANCED -> 10
      [] OTHER -> -1

(* A level table that sends every level back to the first *)
NextLevelDown(level) == BEGINNER

NextLevel(level) ==
    CASE level = BEGINNER -> AMATEUR
      [] level = AMATEUR -> ADVANCED
      [] level = ADVANCED -> EXPERTISE
      [] OTHER -> level

(* A finish that clears the ride count and promotes nobody *)
PromoteNever(s, f) == [s EXCEPT !.rideCount = 0]

(* Promotion logic on finishing a trail *)
Promote(s, f) ==
    LET rideValue == IF getPromotionTarget(s.level) = f.subType THEN 1
                     ELSE IF f.subType = PARK THEN 2 ELSE 0
        count     == s.rideCount + rideValue
    IN IF rideValue > 0
       THEN IF PromotionCount(s.level) >= 0 /\ count >= PromotionCount(s.level)
            THEN [s EXCEPT !.rideCount = 0, !.level = NextLevel(s.level)]
            ELSE [s EXCEPT !.rideCount = count]
       ELSE s

(* A movement that never resolves the arrival *)
MoveStepNoArrival(s, C) ==
    IF HasFacility(C.facs, s.currentFacilityId)
    THEN LET f     == FindFacility(C.facs, s.currentFacilityId)
             speed == IF s.state = "skiing" THEN SkiSpeed(s, f, C.snowMod)
                      ELSE LiftSpeed(f)
         IN { Outcome([s EXCEPT !.progress = @ + speed * C.dt],
                      NoFacility, << >>, 0, 0) }
    ELSE { Outcome([s EXCEPT !.state = "idle", !.currentFacilityId = Undefined],
                   NoFacility, << >>, 0, 0) }

MoveStep(s, C) ==
    IF HasFacility(C.facs, s.currentFacilityId)
    THEN LET f         == FindFacility(C.facs, s.currentFacilityId)
             wasSkiing == s.state = "skiing"
             speed     == IF wasSkiing THEN SkiSpeed(s, f, C.snowMod)
                          ELSE LiftSpeed(f)
             p         == s.progress + speed * C.dt
         IN IF p >= ProgressOne
            THEN LET q == IF wasSkiing /\ f.type = TRAIL THEN Promote(s, f) ELSE s
                 IN { Outcome([q EXCEPT !.x = f.end.x + j[1],
                                        !.y = f.end.y + j[2],
                                        !.state = "idle", !.progress = 0,
                                        !.currentFacilityId = Undefined],
                              NoFacility, << >>,
                              IF s.level = ADVANCED /\ q.level = EXPERTISE
                              THEN 1 ELSE 0, 0) :
                      j \in ArrivalJitter }
            ELSE { Outcome([s EXCEPT !.progress = p], NoFacility, << >>, 0, 0) }
    ELSE { Outcome([s EXCEPT !.state = "idle", !.currentFacilityId = Undefined],
                   NoFacility, << >>, 0, 0) }

(* WAITING: re-enqueue when missing from the queue and not boarded; the    *)
(* membership test is made when the queues are put together                *)
(* A waiting step that never puts the skier back into the queue *)
WaitingStepNoHeal(s, C) == Outcome(s, NoFacility, << >>, 0, 0)

WaitingStep(s, C) ==
    Outcome(s, IF HasFacility(C.facs, s.currentFacilityId)
                  /\ ~WasBoarded(C.run, s.id)
               THEN s.currentFacilityId ELSE NoFacility, << >>, 0, 0)

(* After the rest/wake transition: rental, hunger, boarding, then the      *)
(* branch of the skier's state                                             *)
ActiveStep(s1, pays1, C) ==
    LET due   == RentalDue(s1, C.newTime)
        s2    == [s1 EXCEPT !.lastRentalPayTime =
                     IF due THEN C.newTime ELSE RentalBase(s1, C.newTime)]
        pays2 == IF due
                 THEN Append(pays1, PaymentText(INCOME_RENTAL, s1.x, s1.y))
                 ELSE pays1
        s3    == HungerDecay(s2, C.dt)
        s4    == ApplyBoarding(s3, C.run)
        rent  == IF due THEN 1 ELSE 0
        with(o) == [o EXCEPT !.pays = pays2 \o @, !.rentals = rent]
    IN IF s4.state = "eating"
       THEN LET e == EatingStep(s4, C.dt)
            IN { Outcome(e, NoFacility,
                         IF e.state = "idle"
                         THEN Append(pays2, PaymentText(INCOME_CAFE, e.x, e.y))
                         ELSE pays2, 0, rent) }
       ELSE IF s4.state = "idle"
       THEN { with(o) : o \in IdleStep(s4, C) }
       ELSE IF s4.state = "waiting"
       THEN { with(WaitingStep(s4, C)) }
       ELSE IF s4.state = "skiing" \/ s4.state = "lifting"
       THEN { with(o) : o \in MoveStep(s4, C) }
       ELSE { Outcome(s4, NoFacility, pays2, 0, rent) }

SkierOutcomes(s, C) ==
    UNION { IF a.sk.state = "resting"
            THEN { Outcome(m, NoFacility, a.pays, 0, 0) : m \in RestingMoves(a.sk) }
            ELSE ActiveStep(a.sk, a.pays, C) :
            a \in RestOrWake(s, C) }

(* The outcomes of the skiers lo..hi, in list order; the list is halved to *)
(* keep the evaluation shallow                                             *)
RECURSIVE OutcomeRange(_, _, _, _)
OutcomeRange(sk, C, lo, hi) ==
    IF lo > hi THEN { << >> }
    ELSE IF lo = hi THEN { << o >> : o \in SkierOutcomes(sk[lo], C) }
    ELSE LET mid == (lo + hi) \div 2
         IN { a \o b : a \in OutcomeRange(sk, C, lo, mid),
                       b \in OutcomeRange(sk, C, mid + 1, hi) }

(* state.skiers.map(...): the outcomes of skiers 1..n, in list order *)
OutcomeRuns(sk, C, n) == OutcomeRange(sk, C, 1, n)

(* The ids pushed onto the queue of f by the skiers 1..n, in list order:   *)
(*   if (fac && !fac.queue.includes(s.id)) fac.queue.push(s.id);           *)
(* a skier is pushed unless the queue, with the pushes of the skiers       *)
(* before, holds the id already                                            *)
QueuePushes(f, outs, n, guarded) ==
    LET pushes(k) ==
            /\ outs[k].enq = f.id
            /\ guarded => /\ ~SeqContains(f.queue, outs[k].sk.id)
                          /\ \A m \in 1..(k - 1) :
                                ~(outs[m].enq = f.id /\ outs[m].sk.id = outs[k].sk.id)
        order == SelectSeq([ k \in 1..n |-> k ], pushes)
    IN [ m \in 1..Len(order) |-> outs[order[m]].sk.id ]

(* fac is the first facility with the id *)
Pushed(facs, outs, n, guarded) ==
    [ i \in DOMAIN facs |->
        IF \A j \in 1..(i - 1) : facs[j].id # facs[i].id
        THEN [facs[i] EXCEPT !.queue = @ \o QueuePushes(facs[i], outs, n, guarded)]
        ELSE facs[i] ]

(* The queue push without the includes guard *)
EnqueuedUnguarded(facs, outs, n) == Pushed(facs, outs, n, FALSE)

Enqueued(facs, outs, n) == Pushed(facs, outs, n, TRUE)

(* The payments of the skiers lo..hi, in list order *)
RECURSIVE PaysRange(_, _, _)
PaysRange(outs, lo, hi) ==
    IF lo > hi THEN << >>
    ELSE IF lo = hi THEN outs[lo].pays
    ELSE LET mid == (lo + hi) \div 2
         IN PaysRange(outs, lo, mid) \o PaysRange(outs, mid + 1, hi)

AllPays(outs, n) == PaysRange(outs, 1, n)

(* The sum of nums[lo..hi] *)
RECURSIVE SumRange(_, _, _)
SumRange(nums, lo, hi) ==
    IF lo > hi THEN 0
    ELSE IF lo = hi THEN nums[lo]
    ELSE LET mid == (lo + hi) \div 2
         IN SumRange(nums, lo, mid) + SumRange(nums, mid + 1, hi)

SumAmounts(pays, n) == SumRange([ i \in 1..n |-> pays[i].amount ], 1, n)

SumField(outs, n, rentals) ==
    SumRange([ i \in 1..n |-> IF rentals THEN outs[i].rentals
                                         ELSE outs[i].promoted ], 1, n)

(* --- Spawning (lines 1075-1094) --- *)

(* roll < 0.30, < 0.70, < 0.95, else *)
SpawnLevels(sk) ==
    LET currentExperts == Cardinality({ i \in DOMAIN sk : sk[i].level = EXPERTISE })
    IN { BEGINNER, AMATEUR, ADVANCED,
         IF currentExperts < MAX_SPAWNED_EXPERTS THEN EXPERTISE ELSE ADVANCED }

(* A spawn rule without the daytime, population and interval conditions *)
SpawnDueAlways(sk, facs, night, newTime, lastSpawn) == Len(facs) > 0

SpawnDue(sk, facs, night, newTime, lastSpawn) ==
    /\ ~night
    /\ Len(sk) < MAX_POPULATION
    /\ newTime - lastSpawn >= 60
    /\ Len(facs) > 0

StartFacility(facs) ==
    IF \E i \in DOMAIN facs : IsLiftLike(facs[i]) /\ NotClosed(facs[i])
    THEN facs[CHOOSE i \in DOMAIN facs :
                 /\ IsLiftLike(facs[i]) /\ NotClosed(facs[i])
                 /\ \A j \in 1..(i - 1) : ~(IsLiftLike(facs[j]) /\ NotClosed(facs[j]))]
    ELSE facs[1]

(* A spawn that brings two skiers at once *)
SkiersToAddPair(sk, facs, night, newTime, lastSpawn) ==
    IF SpawnDue(sk, facs, night, newTime, lastSpawn)
    THEN { << createSkier(Len(sk), StartFacility(facs).start, level, v),
              createSkier(Len(sk) + 1, StartFacility(facs).start, level, v) >> :
             level \in SpawnLevels(sk), v \in SpeedVariances }
    ELSE { << >> }

SkiersToAdd(sk, facs, night, newTime, lastSpawn) ==
    IF SpawnDue(sk, facs, night, newTime, lastSpawn)
    THEN { << createSkier(Len(sk), StartFacility(facs).start, level, v) >> :
             level \in SpawnLevels(sk), v \in SpeedVariances }
    ELSE { << >> }

(* spawnPoints of the wake-up *)
SpawnPoints(facs) ==
    LET open == { facs[i].start : i \in { j \in DOMAIN facs :
                                            IsLiftLike(facs[j]) /\ NotClosed(facs[j]) } }
    IN IF open = {} THEN { Pt(80 * CoordUnit, 80 * CoordUnit) } ELSE open

(* --- The tick --- *)

(* The pause check left out: every tick runs *)
PausedNever(speed) == FALSE

(* if (state.gameSpeed === 0) return state *)
Paused(speed) == speed = 0

(* The game speed added to the frame time instead of scaling it *)
ScaledDtSum(deltaTime, speed) == deltaTime + speed

(* const dt = deltaTime * state.gameSpeed *)
ScaledDt(deltaTime, speed) == deltaTime * speed

(* Lifts and gondolas: each can draw a wind hold on a new day *)
LiftIds(facs) == { facs[i].id : i \in { j \in DOMAIN facs : IsLiftLike(facs[j]) } }

(* Blue trails: each draws its night status *)
BlueTrailIds(facs) ==
    { facs[i].id : i \in { j \in DOMAIN facs :
                              facs[j].type = TRAIL /\ facs[j].subType = BLUE } }

SkierIds(sk) == { sk[i].id : i \in DOMAIN sk }

(* The facilities after the day/night policy, the connectivity resolver    *)
(* and the clearing of the resting skiers from the queues                  *)
(* Daily statuses drawn on every tick that does not begin a night *)
PolicyFacilitiesEveryTick(facs, nightEdge, dayEdge, windHold, blueOpen, rest, sk) ==
    LET policy == IF nightEdge THEN NightPolicy(facs, blueOpen)
                  ELSE DayPolicy(facs, windHold)
        conn   == applyConnectivityRules(policy, DEFAULT_GRID_H)
    IN IF nightEdge
       THEN [ i \in DOMAIN conn |->
                [conn[i] EXCEPT !.queue = SeqFilter(@, Range(@) \ rest)] ]
       ELSE conn

PolicyFacilities(facs, nightEdge, dayEdge, windHold, blueOpen, rest, sk) ==
    LET policy == IF dayEdge THEN DayPolicy(facs, windHold)
                  ELSE IF nightEdge THEN NightPolicy(facs, blueOpen)
                  ELSE facs
        conn   == applyConnectivityRules(policy, DEFAULT_GRID_H)
    IN IF nightEdge
       THEN [ i \in DOMAIN conn |->
                [conn[i] EXCEPT !.queue = SeqFilter(@, Range(@) \ rest)] ]
       ELSE conn

updateGame(deltaTime) ==
    LET dt        == ScaledDt(deltaTime, gameSpeed)
        newTime   == time + dt
        night     == ClockIsNight(newTime)
        nightEdge == JustBecameNight(night, isNight)
        dayEdge   == JustBecameDay(night, isNight)
    IN \E snow \in SnowOutcomes(snowDepth),
          windHold \in SUBSET (IF dayEdge THEN LiftIds(facilities) ELSE {}),
          blueOpen \in SUBSET (IF nightEdge
                               THEN BlueTrailIds(facilities)
                               ELSE {}),
          rest \in SUBSET (IF nightEdge THEN SkierIds(skiers) ELSE {}) :
         LET facs1 == PolicyFacilities(facilities, nightEdge, dayEdge,
                                       windHold, blueOpen, rest, skiers)
         IN \E added \in SkiersToAdd(skiers, facs1, night, newTime, lastSpawnTime),
               run \in BoardingRuns(facs1, skiers, newTime, Len(facs1)) :
              LET facs2 == AfterBoarding(facs1, run)
                  C == [facs |-> facs2, newTime |-> newTime, dt |-> dt,
                        snowMod |-> getSnowSpeedMod(snow), run |-> run,
                        nightEdge |-> nightEdge, dayEdge |-> dayEdge,
                        rest |-> rest,
                        spawnPoints |-> IF dayEdge THEN SpawnPoints(facs1) ELSE {}]
              IN \E outs \in OutcomeRuns(skiers, C, Len(skiers)) :
                   LET pays == AllPays(outs, Len(outs))
                   IN /\ time' = newTime
                      /\ coins' = coins + SumAmounts(pays, Len(pays))
                      /\ skiers' = [ i \in DOMAIN outs |-> outs[i].sk ] \o added
                      /\ facilities' = Enqueued(facs2, outs, Len(outs))
                      /\ promotedCount' = promotedCount + SumField(outs, Len(outs), FALSE)
                      /\ nextSkierLabelIndex' = nextSkierLabelIndex + Len(added)
                      /\ lastSpawnTime' = IF Len(added) > 0 THEN lastSpawnTime + 60
                                          ELSE lastSpawnTime
                      /\ isNight' = night
                      /\ lightOpacity' = ClockOpacity(newTime)
                      /\ floatingTexts' = DecayTexts(floatingTexts, dt) \o pays
                      /\ snowDepth' = snow
                      /\ boarded' = run
                      /\ rentalsPaid' = rentalsPaid + SumField(outs, Len(outs), TRUE)
                      /\ edges' = IF nightEdge \/ dayEdge
                                  THEN Append(edges,
                                              [night |-> nightEdge,
                                               day   |-> dayEdge,
                                               time  |-> newTime,
                                               cycle |-> newTime \div CYCLE_TOTAL])
                                  ELSE edges

(* One frame of the game loop (src/App.tsx, lines 174-186), with the      *)
(* frame times and the bounds of a run                                   *)
Frame(deltaTimes, maxTicks, maxTime) ==
    \E deltaTime \in deltaTimes :
        /\ ticks < maxTicks
        /\ ticks' = ticks + 1
        /\ time + ScaledDt(deltaTime, gameSpeed) <= maxTime
        /\ lastOp' = "tick"
        /\ lastDt' = deltaTime
        /\ UNCHANGED << gameSpeed, cmds >>
        /\ IF Paused(gameSpeed)
           THEN /\ GameUnchanged
                /\ UNCHANGED << coins, skiers, facilities, rentalsPaid >>
                /\ boarded' = << >>
           ELSE updateGame(deltaTime)

Tick == Frame(DeltaTimes, MaxTicks, MaxTime)

Next ==
    \/ Tick
    \/ SetSpeed
    \/ Build
    \/ Demolish
    \/ SellLesson
    \/ ForceLift
    \/ ForceLodge
    \/ Cheat

Spec == Init /\ [][Next]_vars

-----------------------------------------------------------------------------
(* updateGame as a function of its argument: any game state of the type    *)
(* GameState over the opening layout and a cafe, with two skiers in any    *)
(* state, bound to a facility of the layout or to one that is not there.   *)

GoneFacility == "gone"

CafeSite == Pt(8050, 6050)

AnyFacilities ==
    InitialFacilities \o
    << NewFacility("cafe", CAFE, "Cafe", CafeSite,
                   Pt(CafeSite.x + CoordUnit, CafeSite.y + CoordUnit),
                   CoordUnit, 0, "true", 0, 1) >>

AnyProgress == { 0, 400000 }

(* The (state, currentFacilityId, progress) a skier can be handed in with *)
AnyBindings ==
    { [state |-> "idle", fac |-> Undefined, progress |-> 0] }
    \cup { [state |-> "waiting", fac |-> f, progress |-> 0] :
             f \in { "start-lift", GoneFacility } }
    \cup { [state |-> "skiing", fac |-> f, progress |-> p] :
             f \in { "start-run", GoneFacility }, p \in AnyProgress }
    \cup { [state |-> "lifting", fac |-> f, progress |-> p] :
             f \in { "start-lift", GoneFacility }, p \in AnyProgress }
    \cup { [state |-> "eating", fac |-> f, progress |-> p] :
             f \in { "cafe", GoneFacility }, p \in AnyProgress }

AnySkier(id, b) ==
    [createSkier(id, StartPoint, BEGINNER, 100) EXCEPT
        !.state = b.state, !.currentFacilityId = b.fac, !.progress = b.progress]

(* The queue of a lift holds the skiers waiting for it, in list order, or  *)
(* it was handed in empty although skiers wait for the lift                *)
WaitingFor(sk, facId) ==
    LET ids == [ i \in DOMAIN sk |-> sk[i].id ]
    IN SelectSeq(ids, LAMBDA id :
           \E i \in DOMAIN sk : /\ sk[i].id = id
                                /\ sk[i].state = "waiting"
                                /\ sk[i].currentFacilityId = facId)

InitAny ==
    /\ time = 0
    /\ coins = 500
    /\ gameSpeed = 1
    /\ promotedCount = 0
    /\ nextSkierLabelIndex = 2
    /\ lastSpawnTime = 0
    /\ isNight = FALSE
    /\ lightOpacity = 0
    /\ snowDepth = 60 * SnowUnit
    /\ \E b1 \in AnyBindings, b2 \in AnyBindings, queued \in BOOLEAN :
         LET sk == << AnySkier(0, b1), AnySkier(1, b2) >>
         IN /\ skiers = sk
            /\ facilities =
                 [ i \in DOMAIN AnyFacilities |->
                     [AnyFacilities[i] EXCEPT
                        !.queue = IF queued /\ IsLiftLike(AnyFacilities[i])
                                  THEN WaitingFor(sk, AnyFacilities[i].id)
                                  ELSE << >>] ]
    /\ floatingTexts = << >>
    /\ lastOp = "init"
    /\ lastDt = 0
    /\ boarded = << >>
    /\ rentalsPaid = 0
    /\ cmds = 0
    /\ ticks = 0
    /\ edges = << >>

NextAny == Tick

SpecAny == InitAny /\ [][NextAny]_vars

-----------------------------------------------------------------------------
(* applyConnectivityRules as a function of its argument: any list of       *)
(* facilities over a base lift, an upper lift it feeds, a detached upper   *)
(* lift, their trails and a cafe, each open or closed.                     *)

ConnSites ==
    << NewFacility("base-lift", LIFT, CHAIR_4, Pt(8000, 6000), Pt(8000, 4400),
                   1600, 0, "true", 0, 1),
       NewFacility("home-run", TRAIL, GREEN, Pt(8000, 4400), Pt(8000, 6000),
                   1600, 0, "true", 0, 1),
       NewFacility("top-lift", LIFT, CHAIR_2, Pt(8000, 4400), Pt(8000, 3000),
                   1400, 0, "true", 0, 1),
       NewFacility("top-run", TRAIL, BLUE, Pt(8000, 3000), Pt(8000, 4400),
                   1400, 0, "true", 0, 1),
       NewFacility("far-lift", GONDOLA, "Gondola", Pt(2000, 4000),
                   Pt(2000, 3000), 1000, 0, "true", 0, 1),
       NewFacility("far-run", TRAIL, BLACK, Pt(2000, 3000), Pt(2000, 3600),
                   600, 0, "true", 0, 1),
       NewFacility("cafe", CAFE, "Cafe", CafeSite,
                   Pt(CafeSite.x + CoordUnit, CafeSite.y + CoordUnit),
                   CoordUnit, 0, "true", 0, 1),
       NewFacility("lodge-run", TRAIL, GREEN, Pt(8400, 6200), Pt(9000, 6200),
                   600, 0, "true", 0, 1) >>

(* absent, open (isOpen not set), or closed *)
ConnChoices == { "absent", Undefined, "false" }

RECURSIVE ConnPick(_, _)
ConnPick(choice, n) ==
    IF n = 0 THEN << >>
    ELSE IF choice[n] = "absent" THEN ConnPick(choice, n - 1)
    ELSE Append(ConnPick(choice, n - 1),
                [ConnSites[n] EXCEPT !.isOpen = choice[n]])

InitConn ==
    /\ time = 0
    /\ coins = 500
    /\ gameSpeed = 1
    /\ promotedCount = 0
    /\ nextSkierLabelIndex = 0
    /\ lastSpawnTime = 0
    /\ isNight = FALSE
    /\ lightOpacity = 0
    /\ snowDepth = 60 * SnowUnit
    /\ skiers = << >>
    /\ \E choice \in [DOMAIN ConnSites -> ConnChoices] :
          facilities = ConnPick(choice, Len(ConnSites))
    /\ floatingTexts = << >>
    /\ lastOp = "init"
    /\ lastDt = 0
    /\ boarded = << >>
    /\ rentalsPaid = 0
    /\ cmds = 0
    /\ ticks = 0
    /\ edges = << >>

(* One run of the resolver over the facilities, as updateGame calls it *)
Resolve ==
    /\ ticks < 2
    /\ facilities' = applyConnectivityRules(facilities, DEFAULT_GRID_H)
    /\ ticks' = ticks + 1
    /\ lastOp' = "resolve"
    /\ UNCHANGED << time, coins, gameSpeed, promotedCount,
                    nextSkierLabelIndex, lastSpawnTime, isNight,
                    lightOpacity, snowDepth, skiers, floatingTexts, lastDt,
                    boarded, rentalsPaid, cmds, edges >>

NextConn == Resolve

SpecConn == InitConn /\ [][NextConn]_vars

-----------------------------------------------------------------------------
(* The game at dusk: second 64 of the first day, one idle skier at the     *)
(* base, and any resort the player can have built from the sites above,   *)
(* as the resolver of the previous tick left it.                           *)

DuskChoices == { "absent", Undefined }

DuskTime == DURATION_DAY + DURATION_FADE - 1

InitDusk ==
    /\ time = DuskTime
    /\ coins = 500
    /\ gameSpeed = 1
    /\ promotedCount = 0
    /\ nextSkierLabelIndex = 1
    /\ isNight = FALSE
    /\ lightOpacity = ClockOpacity(DuskTime)
    /\ snowDepth = 60 * SnowUnit
    /\ skiers = << createSkier(0, Pt(8000, 6000), BEGINNER, 100) >>
    /\ \E choice \in [DOMAIN ConnSites -> DuskChoices] :
          /\ facilities =
                applyConnectivityRules(ConnPick(choice, Len(ConnSites)),
                                       DEFAULT_GRID_H)
          /\ lastSpawnTime =
                IF \E i \in DOMAIN facilities :
                       IsLiftLike(facilities[i]) /\ NotClosed(facilities[i])
                THEN DURATION_DAY ELSE 0
    /\ floatingTexts = << >>
    /\ lastOp = "init"
    /\ lastDt = 0
    /\ boarded = << >>
    /\ rentalsPaid = 0
    /\ cmds = 0
    /\ ticks = 0
    /\ edges = << >>

NextDusk == Tick

SpecDusk == InitDusk /\ [][NextDusk]_vars

-----------------------------------------------------------------------------
(* The game with two skiers close to the end of a trail, at any level and  *)
(* with a ride count at or just below the promotion threshold.  The trails *)
(* leave the top of the start lift, so the resolver keeps them open.       *)

RideFacilities ==
    InitialFacilities \o
    << NewFacility("blue-run", TRAIL, BLUE, MidPoint, Pt(8200, 6000),
                   distance(MidPoint, Pt(8200, 6000)), 0, "true", 0, 1),
       NewFacility("park-run", TRAIL, PARK, MidPoint, Pt(7800, 6000),
                   distance(MidPoint, Pt(7800, 6000)), 0, "true", 0, 1) >>

(* (level, rideCount, trail) a skier can be in shortly before the finish *)
RideCases ==
    { [level |-> BEGINNER,  rideCount |-> 4, fac |-> "start-run"],
      [level |-> BEGINNER,  rideCount |-> 3, fac |-> "park-run"],
      [level |-> AMATEUR,   rideCount |-> 6, fac |-> "start-run"],
      [level |-> AMATEUR,   rideCount |-> 5, fac |-> "blue-run"],
      [level |-> ADVANCED,  rideCount |-> 9, fac |-> "blue-run"],
      [level |-> ADVANCED,  rideCount |-> 0, fac |-> "start-run"],
      [level |-> EXPERTISE, rideCount |-> 9, fac |-> "park-run"] }

(* The second skier: one that is promoted to the top level with the       *)
(* first, one promoted below it, and one that no trail promotes            *)
RideCompanions ==
    { c \in RideCases :
        \/ c.level = ADVANCED /\ c.rideCount = 9
        \/ c.level = BEGINNER /\ c.rideCount = 4
        \/ c.level = EXPERTISE }

RideProgress == 900000

RideSkier(id, c) ==
    [createSkier(id, StartPoint, c.level, 100) EXCEPT
        !.state = "skiing", !.currentFacilityId = c.fac,
        !.progress = RideProgress, !.rideCount = c.rideCount]

InitRide ==
    /\ time = 0
    /\ coins = 500
    /\ gameSpeed = 1
    /\ promotedCount = 0
    /\ nextSkierLabelIndex = 2
    /\ lastSpawnTime = 0
    /\ isNight = FALSE
    /\ lightOpacity = 0
    /\ snowDepth = 60 * SnowUnit
    /\ \E c1 \in RideCases, c2 \in RideCompanions :
          skiers = << RideSkier(0, c1), RideSkier(1, c2) >>
    /\ facilities = RideFacilities
    /\ floatingTexts = << >>
    /\ lastOp = "init"
    /\ lastDt = 0
    /\ boarded = << >>
    /\ rentalsPaid = 0
    /\ cmds = 0
    /\ ticks = 0
    /\ edges = << >>

NextRide ==
    \/ Tick
    \/ SellLesson
    \/ ForceLift

SpecRide == InitRide /\ [][NextRide]_vars

-----------------------------------------------------------------------------
(* The idle decision of a lone Beginner at the top of the start lift,      *)
(* where the start run begins: fed or hungry, with or without the lift     *)
(* below, a Blue trail from the same point, a lift from the same point and *)
(* a cafe three units away, at the start of the first day or at dusk.     *)
(* The facilities are as the player's last command left them (a new       *)
(* facility has isOpen true).                                              *)

IdleSites ==
    << InitialFacilities[1],
       NewFacility("blue-run", TRAIL, BLUE, MidPoint, Pt(8200, 6000),
                   distance(MidPoint, Pt(8200, 6000)), 0, "true", 0, 1),
       NewFacility("top-lift", LIFT, CHAIR_2, MidPoint, Pt(8000, 5200),
                   distance(MidPoint, Pt(8000, 5200)), 0, "true", 0, 1),
       NewFacility("cafe", CAFE, "Cafe", Pt(8300, 5600), Pt(8400, 5700),
                   CoordUnit, 0, "true", 0, 1) >>

RECURSIVE IdlePick(_, _)
IdlePick(present, n) ==
    IF n = 0 THEN << >>
    ELSE IF n \in present THEN Append(IdlePick(present, n - 1), IdleSites[n])
    ELSE IdlePick(present, n - 1)

(* fed, and hungry (below 30) *)
IdleHungers == { 100 * HungerUnit, 20 * HungerUnit }

InitIdle ==
    /\ time \in { 0, DuskTime }
    /\ coins = 500
    /\ gameSpeed = 1
    /\ promotedCount = 0
    /\ nextSkierLabelIndex = 1
    /\ lastSpawnTime = (IF time = 0 THEN 0 ELSE DURATION_DAY)
    /\ isNight = FALSE
    /\ lightOpacity = ClockOpacity(time)
    /\ snowDepth = 60 * SnowUnit
    /\ \E h \in IdleHungers :
          skiers = << [createSkier(0, MidPoint, BEGINNER, 100)
                         EXCEPT !.hunger = h] >>
    /\ \E present \in SUBSET DOMAIN IdleSites :
          facilities = << InitialFacilities[2] >>
                          \o IdlePick(present, Len(IdleSites))
    /\ floatingTexts = << >>
    /\ lastOp = "init"
    /\ lastDt = 0
    /\ boarded = << >>
    /\ rentalsPaid = 0
    /\ cmds = 0
    /\ ticks = 0
    /\ edges = << >>

NextIdle == Tick

SpecIdle == InitIdle /\ [][NextIdle]_vars

-----------------------------------------------------------------------------
(* The game at dusk with a second lift that the player built from the      *)
(* start point, and a Blue trail down from its top.  When the trail draws  *)
(* closed for the night the lift feeds nothing and the night policy closes *)
(* it.  Two skiers are bound to the lift, each waiting in its queue or     *)
(* riding it; a waiting skier's id may also still be in the queue of the   *)
(* start lift, where it waited before the player's last build.             *)

StallSite == Pt(7600, 5900)

StallFacilities ==
    InitialFacilities \o
    << NewFacility("side-lift", LIFT, CHAIR_2, StartPoint, StallSite,
                   distance(StartPoint, StallSite), 0, "true", 0, 1),
       NewFacility("side-run", TRAIL, BLUE, StallSite, Pt(7800, 6050),
                   distance(StallSite, Pt(7800, 6050)), 0, "true", 0, 1) >>

StallCases == { "queued", "queued-stale", "aboard" }

StallProgress == 400000

StallSkier(id, c) ==
    [createSkier(id, StartPoint, BEGINNER, 100) EXCEPT
        !.state = (IF c = "aboard" THEN "lifting" ELSE "waiting"),
        !.currentFacilityId = "side-lift",
        !.progress = (IF c = "aboard" THEN StallProgress ELSE 0)]

(* The ids, in skier order, of the skiers whose case is in cs *)
StallQueue(case, cs) ==
    SelectSeq(<< 0, 1 >>, LAMBDA id : case[id + 1] \in cs)

InitStall ==
    /\ time = DuskTime
    /\ coins = 500
    /\ gameSpeed = 1
    /\ promotedCount = 0
    /\ nextSkierLabelIndex = 2
    /\ lastSpawnTime = DURATION_DAY
    /\ isNight = FALSE
    /\ lightOpacity = ClockOpacity(DuskTime)
    /\ snowDepth = 60 * SnowUnit
    /\ \E case \in [1..2 -> StallCases] :
          /\ skiers = [ i \in 1..2 |-> StallSkier(i - 1, case[i]) ]
          /\ facilities =
                [ k \in DOMAIN StallFacilities |->
                    [StallFacilities[k] EXCEPT !.queue =
                        IF @ # << >> THEN @
                        ELSE IF StallFacilities[k].id = "side-lift"
                             THEN StallQueue(case, { "queued", "queued-stale" })
                        ELSE IF StallFacilities[k].id = "start-lift"
                             THEN StallQueue(case, { "queued-stale" })
                        ELSE << >>] ]
    /\ floatingTexts = << >>
    /\ lastOp = "init"
    /\ lastDt = 0
    /\ boarded = << >>
    /\ rentalsPaid = 0
    /\ cmds = 0
    /\ ticks = 0
    /\ edges = << >>

NextStall == Tick

SpecStall == InitStall /\ [][NextStall]_vars

-----------------------------------------------------------------------------
(* The cycle clock over several days: the opening layout and one skier,    *)
(* from the start of the game or from the last second before nightfall,    *)
(* run by frames alone.                                                    *)

MaxClockTime == 4 * CYCLE_TOTAL
MaxClockTicks == 5

InitClock ==
    /\ time \in { 0, DuskTime }
    /\ coins = 500
    /\ gameSpeed = 1
    /\ promotedCount = 0
    /\ nextSkierLabelIndex = 1
    /\ lastSpawnTime = (IF time = 0 THEN 0 ELSE DURATION_DAY)
    /\ isNight = FALSE
    /\ lightOpacity = ClockOpacity(time)
    /\ snowDepth = 60 * SnowUnit
    /\ skiers = << createSkier(0, StartPoint, BEGINNER, 100) >>
    /\ facilities = InitialFacilities
    /\ floatingTexts = << >>
    /\ lastOp = "init"
    /\ lastDt = 0
    /\ boarded = << >>
    /\ rentalsPaid = 0
    /\ cmds = 0
    /\ ticks = 0
    /\ edges = << >>

LongTick == Frame(DeltaTimes, MaxClockTicks, MaxClockTime)

NextClock == LongTick

SpecClock == InitClock /\ [][NextClock]_vars

-----------------------------------------------------------------------------
(* Skiing down: the opening lift and a trail of any difficulty back down,  *)
(* one skier at the top of the trail, fed or hungry, on good or on thin    *)
(* snow, run by frames that take time.                                     *)

SkiFacilities(subType) ==
    << InitialFacilities[1],
       NewFacility("ski-run", TRAIL, subType, MidPoint, StartPoint,
                   distance(StartPoint, MidPoint), 0, "true", 0, 1) >>

SkiSubTypes == { GREEN, DOUBLE_DIAMOND, PARK }
SkiLevels == { BEGINNER, EXPERTISE }
SkiHungers == { 100 * HungerUnit, 20 * HungerUnit }
SkiSnows == { 60 * SnowUnit, 10 * SnowUnit }

MaxSkiTime == 90
SkiSlack == 70

(* deltaTime of the frames of this run, in seconds *)
SkiDeltaTimes == { 10, 60 }

InitSki ==
    /\ time = 0
    /\ coins = 500
    /\ gameSpeed = 1
    /\ promotedCount = 0
    /\ nextSkierLabelIndex = 1
    /\ lastSpawnTime = 0
    /\ isNight = FALSE
    /\ lightOpacity = 0
    /\ snowDepth \in SkiSnows
    /\ \E level \in SkiLevels, h \in SkiHungers :
          skiers = << [createSkier(0, MidPoint, level, 100) EXCEPT
                         !.state = "skiing", !.currentFacilityId = "ski-run",
                         !.hunger = h] >>
    /\ \E subType \in SkiSubTypes : facilities = SkiFacilities(subType)
    /\ floatingTexts = << >>
    /\ lastOp = "init"
    /\ lastDt = 0
    /\ boarded = << >>
    /\ rentalsPaid = 0
    /\ cmds = 0
    /\ ticks = 0
    /\ edges = << >>

(* A frame that takes time, of a game that is not paused *)
RunTick == Frame(SkiDeltaTimes, MaxSkiTime, MaxSkiTime)

NextSki == RunTick

(* The game loop keeps asking for frames (requestAnimationFrame): while    *)
(* the run lasts, a frame that moves the clock is taken again and again.   *)
(* Every step is a RunTick, so the fairness is stated on the clock alone.  *)
TimePasses == time' \in (time + 1)..MaxSkiTime

SpecSki == InitSki /\ [][NextSki]_vars /\ WF_time(TimePasses)

-----------------------------------------------------------------------------
(* A full resort: the opening layout late in the game, with the           *)
(* population at or just under MAX_POPULATION.  The game starts with       *)
(* FirstSkiers agents and lastSpawnTime grows by 60 with every spawn, so   *)
(* a population of n has lastSpawnTime = 60 * (n - FirstSkiers).           *)

FirstSkiers == 5

(* Minute 144 of the game, 40 seconds into a day *)
CrowdStart == 60 * (MAX_POPULATION - 1 - FirstSkiers)

(* One under the limit and a spawn not yet due; at the limit; two under    *)
(* the limit with a spawn due, 80 seconds into the cycle, at night         *)
CrowdCases ==
    { [population |-> MAX_POPULATION - 1, time |-> CrowdStart],
      [population |-> MAX_POPULATION,     time |-> CrowdStart + CYCLE_TOTAL],
      [population |-> MAX_POPULATION - 2, time |-> CrowdStart + 40] }

MaxCrowdTicks == 3
MaxCrowdTime == CrowdStart + 3 * CYCLE_TOTAL

InitCrowd ==
    \E c \in CrowdCases :
        /\ time = c.time
        /\ coins = 500
        /\ gameSpeed = 1
        /\ promotedCount = 0
        /\ nextSkierLabelIndex = c.population
        /\ lastSpawnTime = 60 * (c.population - FirstSkiers)
        /\ isNight = ClockIsNight(c.time)
        /\ lightOpacity = ClockOpacity(c.time)
        /\ snowDepth = 60 * SnowUnit
        /\ skiers = [ i \in 1..c.population |->
                        createSkier(i - 1, StartPoint, BEGINNER, 100) ]
        /\ facilities = InitialFacilities
        /\ floatingTexts = << >>
        /\ lastOp = "init"
        /\ lastDt = 0
        /\ boarded = << >>
        /\ rentalsPaid = 0
        /\ cmds = 0
        /\ ticks = 0
        /\ edges = << >>

CrowdTick == Frame(DeltaTimes, MaxCrowdTicks, MaxCrowdTime)

NextCrowd == CrowdTick

SpecCrowd == InitCrowd /\ [][NextCrowd]_vars

-----------------------------------------------------------------------------
(* Properties *)

(* A step that is a tick which ran updateGame past the pause check *)
RunningTick == lastOp' = "tick" /\ gameSpeed > 0

SkierById(sk, id) == sk[CHOOSE i \in DOMAIN sk : sk[i].id = id]

HasSkier(sk, id) == \E i \in DOMAIN sk : sk[i].id = id

BoardedOn(run, facId) == { j \in DOMAIN run : run[j].fac = facId }

QueueIsWaiting(f, sk) ==
    \A k \in DOMAIN f.queue :
        /\ HasSkier(sk, f.queue[k])
        /\ SkierById(sk, f.queue[k]).state = "waiting"
        /\ SkierById(sk, f.queue[k]).currentFacilityId = f.id

(* The lift at index i is one the claim C1 speaks of: open through the     *)
(* tick, no seat taken near the terminal, more waiting agents queued than  *)
(* it has seats, and the tick's phase inside the boarding window           *)
FullQueueAtWindow(i) ==
    LET f == facilities[i]
    IN /\ IsLiftLike(f)
       /\ NotClosed(f)
       /\ NotClosed(facilities'[i])
       /\ isNight' = isNight
       /\ OccupiedSeats(f, skiers) = {}
       /\ Len(f.queue) > getLiftCapacity(f.subType)
       /\ QueueIsWaiting(f, skiers)
       /\ InBoardingWindow(f, time')

(* C1: a tick inside the boarding window of an open lift of capacity c,    *)
(* with no seat taken near the terminal and n > c waiting agents queued,   *)
(* boards exactly c agents (the queue head) and leaves the other n - c in  *)
(* the queue.                                                              *)
C1_BoardsExactlyCapacity ==
    [][ RunningTick =>
          \A i \in DOMAIN facilities :
              FullQueueAtWindow(i) =>
                  LET f == facilities[i]
                      c == getLiftCapacity(f.subType)
                  IN /\ Cardinality(BoardedOn(boarded', f.id)) = c
                     /\ \A k \in 1..c :
                            SkierById(skiers', f.queue[k]).state = "lifting"
                     /\ facilities'[i].queue = SubSeq(f.queue, c + 1, Len(f.queue))
      ]_vars

NearTerminalRiders(f, sk) ==
    { i \in DOMAIN sk : /\ sk[i].state = "lifting"
                        /\ sk[i].currentFacilityId = f.id
                        /\ NearTerminal(sk[i], f) }

(* C2: after every tick, on every lift or gondola, the agents in state     *)
(* lifting whose progress is below 0.5 / numChairs are no more than the    *)
(* lift has seats.                                                         *)
C2_NearTerminalWithinCapacity ==
    lastOp = "tick" =>
        \A i \in DOMAIN facilities :
            IsLiftLike(facilities[i]) =>
                Cardinality(NearTerminalRiders(facilities[i], skiers))
                    <= getLiftCapacity(facilities[i].subType)

(* C3: after every tick, whatever commands ran between the ticks, every id *)
(* in a facility's queue is an agent in state waiting whose                *)
(* currentFacilityId is that facility.                                     *)
C3_QueuedAreWaitingThere ==
    lastOp = "tick" =>
        \A i \in DOMAIN facilities : QueueIsWaiting(facilities[i], skiers)

(* C4: an agent id is in the queue of at most one facility *)
C4_InOneQueueAtMost ==
    \A i, j \in DOMAIN facilities :
        i # j => Range(facilities[i].queue) \cap Range(facilities[j].queue) = {}

(* C5: the decision step never sends an idle agent skiing on a trail, or   *)
(* waiting for a lift, that is closed when the decision is made (the       *)
(* closures of the tick are made before the decisions, so that is the      *)
(* facility's isOpen after the tick).                                      *)
C5_NeverTakesClosed ==
    [][ RunningTick =>
          \A i \in DOMAIN skiers :
              ( /\ skiers[i].state = "idle"
                /\ skiers'[i].state \in { "skiing", "waiting" }
                /\ HasFacility(facilities', skiers'[i].currentFacilityId) )
              => NotClosed(FindFacility(facilities', skiers'[i].currentFacilityId))
      ]_vars

(* C6: right after every tick every agent's progress is within [0,1] *)
C6_ProgressInUnitInterval ==
    lastOp = "tick" =>
        \A i \in DOMAIN skiers :
            skiers[i].progress >= 0 /\ skiers[i].progress <= ProgressOne

Dangling(s, facs) ==
    /\ s.state \in { "waiting", "skiing", "lifting", "eating" }
    /\ s.currentFacilityId # Undefined
    /\ ~HasFacility(facs, s.currentFacilityId)

C8_RentalChargedAfterSixty ==
    (lastOp = "tick" /\ time > 60 /\ ~isNight) => rentalsPaid >= InitialSkiers

(* C9: a tick with gameSpeed = 0 returns its input: time, coins, skiers,   *)
(* facilities, the day/night flags, the floating events and every other    *)
(* field are the same.                                                     *)
C9_PausedTickReturnsInput ==
    [][ (lastOp' = "tick" /\ gameSpeed = 0) =>
          UNCHANGED << time, coins, gameSpeed, promotedCount,
                       nextSkierLabelIndex, lastSpawnTime, isNight,
                       lightOpacity, snowDepth, skiers, facilities,
                       floatingTexts >>
      ]_vars

(* A paused tick has run on a state where a running tick would have acted: *)
(* an idle skier stands at the start of an open lift.                      *)
C9_Witness ==
    /\ lastOp = "tick"
    /\ gameSpeed = 0
    /\ \E i \in DOMAIN skiers, k \in DOMAIN facilities :
          /\ skiers[i].state = "idle"
          /\ IsLiftLike(facilities[k])
          /\ NotClosed(facilities[k])
          /\ IsStart(skiers[i], facilities[k])

C11_ResolverIdempotent ==
    LET once  == applyConnectivityRules(facilities, DEFAULT_GRID_H)
        twice == applyConnectivityRules(once, DEFAULT_GRID_H)
    IN \A i \in DOMAIN facilities : twice[i].isOpen = once[i].isOpen

(* The resolver has run twice on a list where it closed the detached lift  *)
(* and its trail, and kept the chain from the base open.                   *)
C11_Witness ==
    /\ lastOp = "resolve"
    /\ ticks = 2
    /\ \E i, j, k \in DOMAIN facilities :
          /\ facilities[i].id = "far-run" /\ ~NotClosed(facilities[i])
          /\ facilities[j].id = "far-lift" /\ ~NotClosed(facilities[j])
          /\ facilities[k].id = "top-run" /\ NotClosed(facilities[k])

(* C12: on the tick where night begins, if a trail is open for the night   *)
(* (a Green trail always is) and some lift or gondola ends within 20 of    *)
(* its start, a lift or gondola is open in the state the tick returns.     *)
C12_NightKeepsALiftOpen ==
    [][ ( /\ RunningTick
          /\ ~isNight
          /\ isNight'
          /\ \E t, l \in DOMAIN facilities :
                /\ facilities[t].type = TRAIL
                /\ facilities[t].subType = GREEN
                /\ IsLiftLike(facilities[l])
                /\ Within(facilities[l].end, facilities[t].start,
                          20 * CoordUnit) )
        => \E l \in DOMAIN facilities' :
              IsLiftLike(facilities'[l]) /\ NotClosed(facilities'[l])
      ]_vars

(* C13: a tick drops no agent: every skier of the input is in the output   *)
(* at the same place of the list, and the list grows only by the spawn     *)
(* rule: one skier, by day, below the population cap, 60 game-seconds or   *)
(* more after the last spawn time.                                         *)
C13_NoAgentDropped ==
    [][ lastOp' = "tick" =>
          /\ Len(skiers') >= Len(skiers)
          /\ \A i \in DOMAIN skiers : skiers'[i].id = skiers[i].id
          /\ Len(skiers') > Len(skiers) =>
                /\ Len(skiers') = Len(skiers) + 1
                /\ gameSpeed > 0
                /\ ~isNight'
                /\ Len(skiers) < MAX_POPULATION
                /\ time' - lastSpawnTime >= 60
                /\ lastSpawnTime' = lastSpawnTime + 60
      ]_vars

(* A tick has spawned a skier behind the ones the game started with *)
C13_Witness ==
    /\ lastOp = "tick"
    /\ Len(skiers) = InitialSkiers + 1
    /\ \A i \in 1..InitialSkiers : skiers[i].id = i - 1
    /\ lastSpawnTime = 60

LevelRank(level) ==
    CASE level = BEGINNER -> 0
      [] level = AMATEUR -> 1
      [] level = ADVANCED -> 2
      [] level = EXPERTISE -> 3

(* C14: no agent's level regresses, by a tick or by a command of the       *)
(* player: in the order Beginner < Amateur < Advanced < Expertise the      *)
(* level of every agent is the same or higher after every step.            *)
C14_LevelNeverRegresses ==
    [][ \A i \in DOMAIN skiers :
          /\ i \in DOMAIN skiers'
          /\ skiers'[i].id = skiers[i].id
          /\ LevelRank(skiers'[i].level) >= LevelRank(skiers[i].level)
      ]_vars

(* A tick has promoted an agent: the two agents started below Expertise    *)
(* and one of them is at Expertise now.                                    *)
C14_Witness ==
    /\ lastOp = "tick"
    /\ promotedCount > 0
    /\ \E i \in DOMAIN skiers : skiers[i].level = EXPERTISE /\ skiers[i].rideCount = 0

(* C15 as stated: the ride count of every agent is the same or higher      *)
(* after every tick.                                                       *)
C15_RideCountNeverDrops ==
    [][ lastOp' = "tick" =>
          \A i \in DOMAIN skiers : skiers'[i].rideCount >= skiers[i].rideCount
      ]_vars

(* C15 as the code has it: after every step the ride count of an agent is  *)
(* the same or higher, except on the tick that promotes the agent, where   *)
(* it is reset to 0.                                                       *)
C15_RideCountDropsOnlyOnPromotion ==
    [][ \A i \in DOMAIN skiers :
          \/ skiers'[i].rideCount >= skiers[i].rideCount
          \/ /\ lastOp' = "tick"
             /\ skiers'[i].rideCount = 0
             /\ LevelRank(skiers'[i].level) = LevelRank(skiers[i].level) + 1
      ]_vars

(* A tick has promoted an agent below the top level and reset its count *)
C15_Witness ==
    /\ lastOp = "tick"
    /\ promotedCount = 0
    /\ \E i \in DOMAIN skiers :
          /\ skiers[i].level = AMATEUR
          /\ skiers[i].rideCount = 0
          /\ skiers[i].state = "idle"

(* The agent finished a trail on this step: it was skiing and is idle *)
FinishedTrail(i) ==
    /\ lastOp' = "tick"
    /\ skiers[i].state = "skiing"
    /\ skiers'[i].state = "idle"
    /\ HasFacility(facilities, skiers[i].currentFacilityId)

(* C16: an agent that completes a trail with its ride count at or over the *)
(* threshold of its level has the count reset to 0 and is one level up;    *)
(* promotedCount grows by one for each agent that goes from Advanced to    *)
(* Expertise and by nothing else.                                          *)
C16_PromotionAtThreshold ==
    [][ /\ \A i \in DOMAIN skiers :
             ( /\ FinishedTrail(i)
               /\ PromotionCount(skiers[i].level) >= 0
               /\ \/ skiers[i].rideCount >= PromotionCount(skiers[i].level)
                  \/ skiers'[i].rideCount >= PromotionCount(skiers[i].level) )
             => /\ skiers'[i].rideCount = 0
                /\ LevelRank(skiers'[i].level) = LevelRank(skiers[i].level) + 1
        /\ promotedCount' = promotedCount +
              Cardinality({ i \in DOMAIN skiers :
                              /\ skiers[i].level = ADVANCED
                              /\ skiers'[i].level = EXPERTISE })
      ]_vars

(* The agent is an idle Beginner, fed before and after the tick, at the    *)
(* start of the open Green trail g, and no lift or gondola starts there    *)
LoneBeginnerAt(g) ==
    /\ RunningTick
    /\ Len(skiers) = 1
    /\ skiers[1].state = "idle"
    /\ skiers[1].level = BEGINNER
    /\ skiers[1].hunger >= 30 * HungerUnit
    /\ skiers'[1].hunger >= 30 * HungerUnit
    /\ facilities[g].type = TRAIL
    /\ facilities[g].subType = GREEN
    /\ NotClosed(facilities[g])
    /\ IsStart(skiers[1], facilities[g])
    /\ \A k \in DOMAIN facilities :
          IsLiftLike(facilities[k]) => ~IsStart(skiers[1], facilities[k])

SkisFromStart(g) ==
    /\ skiers'[1].state = "skiing"
    /\ skiers'[1].currentFacilityId = facilities[g].id
    /\ skiers'[1].progress = 0

CafeInRange(s, f) ==
    f.type = CAFE /\ Within(f.start, Here(s), 15 * CoordUnit)

(* The eating agent reaches progress 1 on this step: 0.5 per game-second *)
MealEnds(i) ==
    /\ skiers[i].state = "eating"
    /\ 2 * skiers[i].progress + ProgressOne * (time' - time) >= 2 * ProgressOne

(* C18: an idle agent with hunger below 30 and a cafe within 15 goes to    *)
(* eating on that tick, at such a cafe and with progress 0, and not to     *)
(* skiing or waiting; an eating agent stays eating until its progress      *)
(* reaches 1 at 0.5 per game-second, and on that tick it is idle with      *)
(* hunger 100; each meal that ends adds one cafe fee to the coins and one  *)
(* floating text (checked by day, when no hotel fee is charged).           *)
C18_HungryEatsThenIdle ==
    [][ RunningTick =>
          /\ \A i \in DOMAIN skiers :
                /\ ( /\ skiers[i].state = "idle"
                     /\ skiers[i].hunger < 30 * HungerUnit
                     /\ \E k \in DOMAIN facilities :
                           CafeInRange(skiers[i], facilities[k]) )
                   => /\ skiers'[i].state = "eating"
                      /\ skiers'[i].progress = 0
                      /\ \E k \in DOMAIN facilities :
                            /\ CafeInRange(skiers[i], facilities[k])
                            /\ skiers'[i].currentFacilityId = facilities[k].id
                /\ MealEnds(i)
                   => /\ skiers'[i].state = "idle"
                      /\ skiers'[i].hunger = 100 * HungerUnit
                /\ (skiers[i].state = "eating" /\ ~MealEnds(i) /\ ~isNight')
                   => /\ skiers'[i].state = "eating"
                      /\ skiers'[i].hunger = skiers[i].hunger
          /\ ~isNight' =>
                LET meals == Cardinality({ i \in DOMAIN skiers : MealEnds(i) })
                IN /\ coins' = coins + INCOME_CAFE * meals
                   /\ Len(floatingTexts') =
                        Len(DecayTexts(floatingTexts, time' - time)) + meals
      ]_vars

(* The floating texts of the next state that the step added *)
NewTexts ==
    LET kept == IF RunningTick THEN Len(DecayTexts(floatingTexts, time' - time))
                ELSE Len(floatingTexts)
    IN SubSeq(floatingTexts', kept + 1, Len(floatingTexts'))

(* The text lies where an agent stood when it was charged: where it was    *)
(* before the step, where it is after it, or, for a guest of the hotel,    *)
(* one micro-movement (0.25 by 0.1) away from where it is after the step   *)
AtAnAgent(ft) ==
    \/ \E i \in DOMAIN skiers  : ft.x = skiers[i].x  /\ ft.y = skiers[i].y
    \/ \E i \in DOMAIN skiers' : ft.x = skiers'[i].x /\ ft.y = skiers'[i].y
    \/ \E i \in DOMAIN skiers' :
          /\ skiers'[i].state = "resting"
          /\ Abs(ft.x - skiers'[i].x) <= CoordUnit \div 4
          /\ Abs(ft.y - skiers'[i].y) <= CoordUnit \div 10

Charges == { INCOME_RENTAL, INCOME_CAFE, INCOME_HOTEL, INCOME_LESSON }

(* C19: every charge (rental, cafe meal, hotel stay, sold lesson) adds its *)
(* amount to the coins together with exactly one new floating text at the  *)
(* agent's position with life 1.0: on a tick and on a sold lesson the      *)
(* coins grow by the sum of the amounts of the new texts, and each new     *)
(* text carries a charge, has life 1.0 and lies at an agent.               *)
C19_EveryChargeHasFeedback ==
    [][ (RunningTick \/ lastOp' = "sell-lesson") =>
          /\ coins' = coins + SumAmounts(NewTexts, Len(NewTexts))
          /\ \A k \in DOMAIN NewTexts :
                /\ NewTexts[k].amount \in Charges
                /\ NewTexts[k].life = 100
                /\ AtAnAgent(NewTexts[k])
      ]_vars

(* C20: every unpaused tick with dt > 0 adds to the coins, on top of the   *)
(* charges of the tick, a passive income of population / 60 coins per      *)
(* game-second: 60 * (coins' - coins - charges) = population * dt.         *)
C20_PassiveIncome ==
    [][ (RunningTick /\ time' > time) =>
          60 * (coins' - coins - SumAmounts(NewTexts, Len(NewTexts)))
            = Len(skiers) * (time' - time)
      ]_vars

FacilityIds(facs) == { facs[i].id : i \in DOMAIN facs }

(* C21: after the demolish command removes a facility, no agent's          *)
(* currentFacilityId is the removed id: every agent that referenced it is  *)
(* idle with progress 0 and no facility, every other agent is unchanged,   *)
(* and the facility is gone with its queue while the others stay as they   *)
(* were.                                                                   *)
C21_DemolishResetsAgents ==
    [][ (lastOp' = "demolish" /\ cmds' = cmds + 1) =>
          \E t \in DOMAIN facilities :
            LET gone == facilities[t].id
            IN /\ facilities' = SelectSeq(facilities, LAMBDA f : f.id # gone)
               /\ gone \notin FacilityIds(facilities')
               /\ Len(skiers') = Len(skiers)
               /\ \A i \in DOMAIN skiers :
                     /\ skiers'[i].currentFacilityId # gone
                     /\ IF skiers[i].currentFacilityId = gone
                        THEN /\ skiers'[i].state = "idle"
                             /\ skiers'[i].progress = 0
                             /\ skiers'[i].currentFacilityId = Undefined
                        ELSE skiers'[i] = skiers[i]
      ]_vars

(* The first lift was demolished while the agents queued at it *)
C21_Witness ==
    /\ lastOp = "demolish"
    /\ ticks >= 1
    /\ gameSpeed > 0
    /\ ~HasFacility(facilities, "start-lift")
    /\ \A i \in DOMAIN skiers :
          skiers[i].state = "idle" /\ skiers[i].currentFacilityId = Undefined

NoDuplicates(q) == \A a, b \in DOMAIN q : q[a] = q[b] => a = b

(* C22: a facility's queue never holds the same agent id twice, after any  *)
(* sequence of ticks and commands.                                         *)
C22_QueueHasNoDuplicates ==
    \A k \in DOMAIN facilities : NoDuplicates(facilities[k].queue)

(* After a command between two ticks an agent whose id was still queued    *)
(* waits at the same lift again, in a queue of several agents              *)
C22_Witness ==
    /\ lastOp = "tick"
    /\ ticks >= 2
    /\ cmds >= 1
    /\ \E k \in DOMAIN facilities :
          /\ Len(facilities[k].queue) >= 2
          /\ \A i \in DOMAIN skiers :
                /\ skiers[i].state = "waiting"
                /\ skiers[i].currentFacilityId = facilities[k].id
                /\ SeqContains(facilities[k].queue, skiers[i].id)

(* The facilities reached from the base area by a chain of at most n links *)
(* of open lifts, gondolas and trails, each ending within 3.0 of the start *)
(* of the next                                                             *)
RECURSIVE ChainReach(_, _, _)
ChainReach(facs, gridH, n) ==
    IF n = 0
    THEN { i \in DOMAIN facs :
             /\ facs[i].type \in { LIFT, GONDOLA }
             /\ facs[i].isOpen # "false"
             /\ 2 * facs[i].start.y > gridH * CoordUnit }
    ELSE LET before == ChainReach(facs, gridH, n - 1)
         IN before \cup
            { i \in DOMAIN facs :
                /\ facs[i].type \in { LIFT, GONDOLA, TRAIL }
                /\ facs[i].isOpen # "false"
                /\ \E j \in before :
                      /\ facs[j].id # facs[i].id
                      /\ Dist2(facs[j].end, facs[i].start)
                           < (3 * CoordUnit) * (3 * CoordUnit) }

(* C23: the resolver returns a lift, gondola or trail as open exactly when *)
(* it was open in the input and a chain of input-open lifts, gondolas and  *)
(* trails leads to it from an input-open lift or gondola that starts in    *)
(* the base area; cafes and closed facilities are returned unchanged, and  *)
(* nothing but isOpen is changed.                                          *)
C23_OpenIffChainFromBase ==
    [][ lastOp' = "resolve" =>
          /\ Len(facilities') = Len(facilities)
          /\ \A i \in DOMAIN facilities :
                IF facilities[i].type = CAFE \/ facilities[i].isOpen = "false"
                THEN facilities'[i] = facilities[i]
                ELSE /\ (facilities'[i].isOpen # "false")
                          <=> i \in ChainReach(facilities, DEFAULT_GRID_H,
                                               Len(facilities))
                     /\ [facilities'[i] EXCEPT !.isOpen = facilities[i].isOpen]
                          = facilities[i]
      ]_vars

(* A resolved layout with the upper run open through the two lifts, the    *)
(* far gondola and the run fed only by the cafe closed                     *)
C23_Witness ==
    /\ lastOp = "resolve"
    /\ \E i, j, k, c \in DOMAIN facilities :
          /\ facilities[i].id = "top-run" /\ NotClosed(facilities[i])
          /\ facilities[j].id = "far-lift" /\ ~NotClosed(facilities[j])
          /\ facilities[k].id = "lodge-run" /\ ~NotClosed(facilities[k])
          /\ facilities[c].id = "cafe" /\ NotClosed(facilities[c])

(* A lift or gondola of the next state that the tick left closed *)
ClosedLiftAfter(k) ==
    /\ IsLiftLike(facilities'[k])
    /\ facilities'[k].isOpen = "false"

(* C24: while a lift or gondola is closed (isOpen false after the          *)
(* connectivity step of the tick), the tick boards no waiting agent onto   *)
(* it and leaves unchanged the progress of every agent lifting on it.      *)
C24_ClosedLiftStalls ==
    [][ RunningTick =>
          \A k \in DOMAIN facilities' :
            ClosedLiftAfter(k) =>
              /\ BoardedOn(boarded', facilities'[k].id) = {}
              /\ \A i \in DOMAIN skiers :
                    skiers[i].currentFacilityId = facilities'[k].id =>
                      /\ skiers[i].state = "waiting" =>
                            skiers'[i].state # "lifting"
                      /\ skiers[i].state = "lifting" =>
                            skiers'[i].progress = skiers[i].progress
      ]_vars

Moving(s) == s.state \in { "skiing", "lifting" }

(* C25: an arrival is resolved in the tick it happens: after every tick no *)
(* agent that is skiing or lifting has progress >= 1, and an agent that    *)
(* was moving on a facility and is idle after the tick has progress 0, no  *)
(* facility and a position within 0.15 of the facility's end in each       *)
(* coordinate.                                                             *)
C25_ArrivalResolvedInTick ==
    [][ RunningTick =>
          \A i \in DOMAIN skiers :
            /\ Moving(skiers'[i]) => skiers'[i].progress < ProgressOne
            /\ ( /\ Moving(skiers[i])
                 /\ HasFacility(facilities, skiers[i].currentFacilityId)
                 /\ skiers'[i].state = "idle" )
               => LET f == FindFacility(facilities, skiers[i].currentFacilityId)
                  IN /\ skiers'[i].progress = 0
                     /\ skiers'[i].currentFacilityId = Undefined
                     /\ Abs(skiers'[i].x - f.end.x) * 100 <= 15 * CoordUnit
                     /\ Abs(skiers'[i].y - f.end.y) * 100 <= 15 * CoordUnit
      ]_vars

(* An agent that was skiing has arrived: it is idle at the foot of the run *)
C25_Witness ==
    /\ lastOp = "tick"
    /\ \E i \in DOMAIN skiers :
          /\ skiers[i].state = "idle"
          /\ skiers[i].progress = 0
          /\ skiers[i].rideCount > 0
          /\ \E k \in DOMAIN facilities :
                /\ facilities[k].type = TRAIL
                /\ skiers[i].x = facilities[k].end.x + 14
                /\ skiers[i].y = facilities[k].end.y - 15

(* C26: within one tick boarding runs before the decisions: an agent that  *)
(* joins a lift queue through the idle decision of a tick is not boarded   *)
(* in that tick (it ends the tick waiting, in the queue), and an agent     *)
(* that arrives in a tick takes no routing decision in it: an agent that   *)
(* was skiing or lifting ends the tick moving on the same facility, idle   *)
(* without a facility, or resting.                                         *)
C26_BoardingBeforeDecision ==
    [][ RunningTick =>
          \A i \in DOMAIN skiers :
            /\ skiers[i].state = "idle" =>
                  /\ skiers'[i].state # "lifting"
                  /\ skiers'[i].state = "waiting" =>
                        /\ ~WasBoarded(boarded', skiers[i].id)
                        /\ \A k \in DOMAIN facilities' :
                              facilities'[k].id = skiers'[i].currentFacilityId =>
                                SeqContains(facilities'[k].queue, skiers[i].id)
            /\ Moving(skiers[i]) =>
                  \/ /\ Moving(skiers'[i])
                     /\ skiers'[i].currentFacilityId = skiers[i].currentFacilityId
                  \/ /\ skiers'[i].state = "idle"
                     /\ skiers'[i].currentFacilityId = Undefined
                  \/ skiers'[i].state = "resting"
      ]_vars

(* The agents joined the queue of a lift that stands in its boarding       *)
(* window with all seats free, and none of them was boarded                *)
C26_Witness ==
    /\ lastOp = "tick"
    /\ gameSpeed > 0
    /\ boarded = << >>
    /\ \E k \in DOMAIN facilities :
          /\ IsLiftLike(facilities[k]) /\ NotClosed(facilities[k])
          /\ InBoardingWindow(facilities[k], time)
          /\ Len(facilities[k].queue) = Len(skiers)
          /\ \A i \in DOMAIN skiers :
                /\ skiers[i].state = "waiting"
                /\ skiers[i].currentFacilityId = facilities[k].id

(* The agent with this id was sent to rest by the tick that begins the     *)
(* night, which takes it out of the queues                                 *)
SentToRest(id) ==
    /\ isNight' /\ ~isNight
    /\ \E i \in DOMAIN skiers' :
          skiers'[i].id = id /\ skiers'[i].state = "resting"

PositionIn(q, id) == CHOOSE p \in DOMAIN q : q[p] = id

(* C27: boarding is FIFO: if agent a is ahead of agent b in the queue of a *)
(* lift and the tick boards b, then it boards a as well (unless a was sent *)
(* to rest), so b is never boarded in an earlier tick than a; and the      *)
(* agents left in the queue after the tick keep their relative order.      *)
C27_BoardingIsFifo ==
    [][ RunningTick =>
          \A k \in DOMAIN facilities :
            IsLiftLike(facilities[k]) =>
              LET q == facilities[k].queue
                  r == facilities'[k].queue
              IN \A a, b \in DOMAIN q :
                   a < b =>
                     /\ WasBoarded(boarded', q[b]) =>
                           WasBoarded(boarded', q[a]) \/ SentToRest(q[a])
                     /\ (SeqContains(r, q[a]) /\ SeqContains(r, q[b])) =>
                           PositionIn(r, q[a]) < PositionIn(r, q[b])
      ]_vars

(* C28: after every tick every agent that is waiting, whose facility       *)
(* exists and who was not boarded in the tick, is in the queue of that     *)
(* facility, and only once.                                                *)
C28_WaitingIsQueued ==
    [][ RunningTick =>
          \A i \in DOMAIN skiers' :
            ( /\ skiers'[i].state = "waiting"
              /\ HasFacility(facilities', skiers'[i].currentFacilityId)
              /\ ~WasBoarded(boarded', skiers'[i].id) )
            => LET q == FindFacility(facilities',
                                     skiers'[i].currentFacilityId).queue
               IN Cardinality({ p \in DOMAIN q : q[p] = skiers'[i].id }) = 1
      ]_vars

(* After the first tick two agents wait at the start lift, which stands    *)
(* in its boarding window, and both are in its queue                       *)
C28_Witness ==
    /\ lastOp = "tick"
    /\ ticks = 1
    /\ boarded = << >>
    /\ \A i \in DOMAIN skiers :
          /\ skiers[i].state = "waiting"
          /\ skiers[i].currentFacilityId = "start-lift"
    /\ FindFacility(facilities, "start-lift").queue = << 0, 1 >>

(* The candidates a daytime tick finds for an idle agent in this state:    *)
(* the options over the facilities as the connectivity resolver leaves     *)
(* them                                                                    *)
CandidatesOf(s) ==
    Options(s, applyConnectivityRules(facilities, DEFAULT_GRID_H), time)

AllScoredZero(options) ==
    /\ Len(options) >= 1
    /\ \A k \in DOMAIN options : options[k].score = 0

(* C29: when every candidate of an idle agent scored zero, the selection   *)
(* falls back to all candidates and any of them can be the one chosen,     *)
(* not only the first one enumerated: the candidates that can win the      *)
(* draw are all the candidates.                                            *)
C29_ZeroScoresDrawFromAll ==
    \A i \in DOMAIN skiers :
      ( /\ skiers[i].state = "idle"
        /\ AllScoredZero(CandidatesOf(skiers[i])) )
      => /\ Pool(CandidatesOf(skiers[i])) = CandidatesOf(skiers[i])
         /\ Winners(Pool(CandidatesOf(skiers[i])))
              = Range(CandidatesOf(skiers[i]))

LiftsOf(facs) == { i \in DOMAIN facs : facs[i].type \in { LIFT, GONDOLA } }

(* The trails that are open for the night: Green, and Blue by the draw *)
NightOpenTrails(facs, blueOpen) ==
    { i \in DOMAIN facs :
        /\ facs[i].type = TRAIL
        /\ \/ facs[i].subType = GREEN
           \/ facs[i].subType = BLUE /\ facs[i].id \in blueOpen }

EndNearStart(a, b, r) ==
    Dist2(a.end, b.start) < (r * CoordUnit) * (r * CoordUnit)

(* The lifts from which a trail of the set is reached through a chain of   *)
(* at most n + 1 lifts, each ending within 3.0 of the start of the next    *)
RECURSIVE FeedReach(_, _, _)
FeedReach(facs, trails, n) ==
    IF n = 0
    THEN { l \in LiftsOf(facs) :
             \E t \in trails : EndNearStart(facs[l], facs[t], 3) }
    ELSE LET before == FeedReach(facs, trails, n - 1)
         IN before \cup
            { l \in LiftsOf(facs) :
                \E m \in before :
                    facs[m].id # facs[l].id /\ EndNearStart(facs[l], facs[m], 3) }

(* The lift ends nearest to the start of a trail of the set *)
NearestLifts(facs, trails) ==
    { l \in LiftsOf(facs) :
        \E t \in trails :
          \A m \in LiftsOf(facs), u \in trails :
             Dist2(facs[l].end, facs[t].start) <= Dist2(facs[m].end, facs[u].start) }

(* C30: on the tick where night begins the night policy, before the        *)
(* connectivity resolution, sets a lift or gondola open exactly when a     *)
(* trail open for the night is reached from it through a chain of lift     *)
(* feeders, whatever its status was, or when it is the single fallback     *)
(* lift: a lift nearest to an open trail, closer than 20, in a layout      *)
(* where no lift feeds an open trail.  All other lifts are closed.         *)
C30_NightPolicyOpensFeeders ==
    \A blueOpen \in SUBSET BlueTrailIds(facilities) :
      LET out    == NightPolicy(facilities, blueOpen)
          trails == NightOpenTrails(facilities, blueOpen)
          reach  == FeedReach(facilities, trails, Len(facilities))
          opened == { l \in LiftsOf(facilities) : out[l].isOpen # "false" }
          near   == { l \in NearestLifts(facilities, trails) :
                        \E t \in trails :
                           EndNearStart(facilities[l], facilities[t], 20) }
      IN IF reach # {} THEN opened = reach
         ELSE IF near = {} THEN opened = {}
         ELSE \E l \in near : opened = { l }

(* Night has begun: the base lift is open for the upper lift it feeds, the *)
(* far gondola is closed                                                   *)
C30_Witness ==
    /\ isNight
    /\ lastOp = "tick"
    /\ \E i, j, k \in DOMAIN facilities :
          /\ facilities[i].id = "base-lift" /\ facilities[i].isOpen = "true"
          /\ facilities[j].id = "top-lift" /\ facilities[j].isOpen = "true"
          /\ facilities[k].id = "far-lift" /\ facilities[k].isOpen = "false"
    /\ \A h \in DOMAIN facilities : facilities[h].id # "home-run"

NightEdges == { i \in DOMAIN edges : edges[i].night }

(* C31: day/night edges alternate and occur at most once per cycle: two    *)
(* ticks that began a night never fall in the same cycle, a tick that      *)
(* began a day lies between any two of them, and no tick is both.          *)
C31_EdgesAlternate ==
    /\ \A i, j \in NightEdges :
          i < j => /\ edges[i].cycle # edges[j].cycle
                   /\ \E k \in DOMAIN edges : i < k /\ k < j /\ edges[k].day
    /\ \A i \in DOMAIN edges : ~(edges[i].night /\ edges[i].day)

(* Two nights have begun, in different cycles, and a later tick of the     *)
(* second night has moved the clock without beginning a night              *)
C31_Witness ==
    /\ Cardinality(NightEdges) >= 2
    /\ isNight /\ lastOp = "tick"
    /\ edges[Len(edges)].night
    /\ time > edges[Len(edges)].time

BoundStates == { "waiting", "skiing", "lifting", "eating" }

(* C32: after every tick an agent has a currentFacilityId exactly when its *)
(* state is waiting, skiing, lifting or eating; idle and resting agents    *)
(* have none.                                                              *)
C32_FacilityIffBoundState ==
    [][ RunningTick =>
          \A i \in DOMAIN skiers' :
              (skiers'[i].currentFacilityId # Undefined)
                 <=> (skiers'[i].state \in BoundStates) ]_vars

(* A tick has left one agent idle with no facility, after boarding it,     *)
(* beside one agent waiting for a lift and one riding or skiing            *)
C32_Witness ==
    /\ lastOp = "tick" /\ gameSpeed > 0
    /\ \E u \in Range(boarded), i, j, k \in DOMAIN skiers :
          /\ skiers[i].id = u.skier
          /\ skiers[i].state = "idle"
          /\ skiers[i].currentFacilityId = Undefined
          /\ skiers[j].state = "waiting"
          /\ skiers[j].currentFacilityId # Undefined
          /\ skiers[k].state \in { "lifting", "skiing" }
          /\ skiers[k].currentFacilityId # Undefined

SkiingOnTrail(i) ==
    /\ i \in DOMAIN skiers
    /\ skiers[i].state = "skiing"
    /\ \E k \in DOMAIN facilities :
          /\ facilities[k].id = skiers[i].currentFacilityId
          /\ facilities[k].type = TRAIL

(* C33: under repeated frames that take time, of a game that is not        *)
(* paused, every agent skiing on an existing trail eventually leaves that  *)
(* state.  The run is cut at MaxSkiTime, so the property is stated for the *)
(* agents skiing while SkiSlack seconds are left.                          *)
C33_SkiingEnds ==
    \A i \in 1..2 :
        (SkiingOnTrail(i) /\ time <= MaxSkiTime - SkiSlack)
            ~> (i \in DOMAIN skiers /\ skiers[i].state # "skiing")

(* A hungry beginner has come down the double diamond on thin snow, which  *)
(* takes more than a minute                                                *)
C33_Witness ==
    /\ lastOp = "tick" /\ time > 60
    /\ skiers[1].state = "idle"
    /\ skiers[1].hunger < 30 * HungerUnit
    /\ snowDepth < SNOW_MIN * SnowUnit
    /\ Abs(skiers[1].x - StartPoint.x) <= CoordUnit
    /\ Abs(skiers[1].y - StartPoint.y) <= CoordUnit
    /\ \E k \in DOMAIN facilities : facilities[k].subType = DOUBLE_DIAMOND

(* The fields of a facility that a tick leaves alone *)
Fixed(f) ==
    << f.id, f.type, f.subType, f.start, f.end, f.length, f.createdAt >>

(* C34: a tick never adds, removes or reorders facilities and never        *)
(* changes a facility's id, type, subType, start, end, length or           *)
(* createdAt; it changes only isOpen and queue.                            *)
C34_TickKeepsFacilities ==
    [][ lastOp' = "tick" =>
          /\ Len(facilities') = Len(facilities)
          /\ \A i \in DOMAIN facilities :
                /\ Fixed(facilities'[i]) = Fixed(facilities[i])
                /\ [facilities'[i] EXCEPT !.isOpen = "", !.queue = << >>]
                     = [facilities[i] EXCEPT !.isOpen = "", !.queue = << >>] ]_vars

(* A tick has closed a facility the player built out of reach, and has     *)
(* put an agent into a queue                                               *)
C34_Witness ==
    /\ lastOp = "tick"
    /\ Len(facilities) > Len(InitialFacilities)
    /\ \E i \in DOMAIN facilities : facilities[i].isOpen = "false"
    /\ \E i \in DOMAIN facilities : facilities[i].queue # << >>

TypesOf(state) ==
    CASE state \in { "lifting", "waiting" } -> { LIFT, GONDOLA }
      [] state = "skiing" -> { TRAIL }
      [] state = "eating" -> { CAFE }
      [] OTHER -> { LIFT, GONDOLA, TRAIL, CAFE }

(* C35: in any interleaving of ticks and external commands an agent's      *)
(* state matches the type of its facility: lifting and waiting only on a   *)
(* lift or gondola, skiing only on a trail, eating only at a cafe.         *)
C35_StateMatchesFacilityType ==
    \A i \in DOMAIN skiers :
        \A k \in DOMAIN facilities :
            facilities[k].id = skiers[i].currentFacilityId
               => facilities[k].type \in TypesOf(skiers[i].state)

PathAvailable(i) ==
    i \in ReachableSet([facilities EXCEPT ![i].isOpen = "true"], DEFAULT_GRID_H)

InAQueue(facs, id) ==
    \E k \in DOMAIN facs : SeqContains(facs[k].queue, id)

(* No agent rests by day, and agents enter resting only on a tick that     *)
(* begins a night, when they are also removed from every queue             *)
RestingOnlyAtNight ==
    /\ (lastOp' = "tick" /\ ~isNight')
         => \A i \in DOMAIN skiers' : skiers'[i].state # "resting"
    /\ \A i \in DOMAIN skiers' :
          (skiers'[i].state = "resting"
             /\ (i \in DOMAIN skiers => skiers[i].state # "resting"))
            => /\ lastOp' = "tick" /\ isNight' /\ ~isNight
               /\ ~InAQueue(facilities', skiers'[i].id)

(* The states in which the agents that rested end the tick that begins a   *)
(* day                                                                     *)
WokenAs(states) ==
    (lastOp' = "tick" /\ ~isNight' /\ isNight)
       => \A i \in DOMAIN skiers :
             skiers[i].state = "resting" => skiers'[i].state \in states

(* C37 as stated: whenever isNight is false after a tick no agent is       *)
(* resting: agents enter resting only on a tick that begins a night, when  *)
(* they are also removed from every queue, and every resting agent becomes *)
(* idle on the tick that begins a day.                                     *)
C37_RestingOnlyAtNight ==
    [][ RestingOnlyAtNight /\ WokenAs({ "idle" }) ]_vars

(* C37 as the code has it: the same, but an agent that rested is made idle *)
(* and takes its idle decision in the tick that begins the day, so it ends *)
(* that tick idle, waiting, skiing or eating.                              *)
C37_RestingEndsAtDaybreak ==
    [][ RestingOnlyAtNight
        /\ WokenAs({ "idle", "waiting", "skiing", "eating" }) ]_vars

(* A tick has just begun a day after a night for which an agent paid the   *)
(* hotel; nobody rests, and an agent waits for a lift already              *)
C37_Witness ==
    /\ lastOp = "tick" /\ ~isNight
    /\ edges # << >> /\ edges[Len(edges)].day /\ edges[Len(edges)].time = time
    /\ coins >= 500 + INCOME_HOTEL + INCOME_RENTAL * rentalsPaid
    /\ \A i \in DOMAIN skiers : skiers[i].state # "resting"
    /\ \E i \in DOMAIN skiers : skiers[i].state = "waiting"

(* C38: the population is bounded: a tick adds at most one skier, only     *)
(* during the day, only when at least 60 game-seconds have passed since    *)
(* lastSpawnTime and the count is below MAX_POPULATION; nothing else adds  *)
(* a skier, so a population that starts at or below MAX_POPULATION never   *)
(* exceeds it.                                                             *)
C38_PopulationBounded ==
    [][ /\ Len(skiers') > Len(skiers)
            => /\ lastOp' = "tick"
               /\ Len(skiers') = Len(skiers) + 1
               /\ ~isNight'
               /\ time' - lastSpawnTime >= 60
               /\ Len(skiers) < MAX_POPULATION
        /\ Len(skiers) <= MAX_POPULATION => Len(skiers') <= MAX_POPULATION
      ]_vars

(* The skier that filled the resort has spawned two minutes after the      *)
(* start, and a minute later the next spawn is due, by day, and has not    *)
(* happened                                                                *)
C38_Witness ==
    /\ lastOp = "tick"
    /\ time = CrowdStart + 120
    /\ ~isNight
    /\ Len(skiers) = MAX_POPULATION
    /\ time - lastSpawnTime >= 60

====
